---- MODULE Spec2Model ----
(***************************************************************************)
(* A model of the wireless channel optimizer                               *)
(* (Channel_Optimization_Analyzer/channel_optimizer.py), of the visualizer *)
(* of its report (Channel_Optimization_Analyzer/visualize_plan.py) and of  *)
(* the troubleshooter (Wireless_Troubleshooting_Toolkit/                   *)
(* troubleshooting_toolkit.py).                                            *)
(*                                                                         *)
(* Numbers.  Python computes with floats; the model computes with exact    *)
(* integers in a fixed-point unit chosen per quantity:                     *)
(*   - metres for the dimensions, tenths of a metre for the grid spacing   *)
(*     (25 * 1.4 = 35.0 m is 350 tenths);                                  *)
(*   - thousandths of a Mbps ("milli-Mbps") for bandwidths, hundredths of  *)
(*     a Mbps for the value produced by round(total_bandwidth, 2);         *)
(*   - percent for the channel overlap.                                    *)
(*                                                                         *)
(* A call is modelled as a pending request (args, drawn by Init of the     *)
(* specification) that one action, the whole method, turns into a result   *)
(* (ret).  ret is [kind |-> "return", value |-> v] for a normal return.    *)
(* and [kind |-> "raise", error |-> e] for an exception.                    *)
(*                                                                         *)
(* Each method has its own specification (SpecOverlap, SpecPlan,           *)
(* SpecCapacity, SpecInterference, SpecReport): Init draws the arguments   *)
(* from the input sets at the end of the model, the actions are the        *)
(* methods.  SpecTxPower adds hand-built layouts to SpecPlan.  Five        *)
(* specifications have a caller that makes further calls: SpecExchanged    *)
(* (the overlap asked both ways round), SpecRepeated (calls repeated in    *)
(* any order), SpecVisualize (the visualizer run after the optimizer),     *)
(* SpecRuns (planning runs and other calls on one optimizer) and           *)
(* SpecToolkit (diagnoses and reports on one troubleshooter).              *)
(***************************************************************************)
EXTENDS Integers, Sequences, FiniteSets, TLC

VARIABLES
    pc,              \* position of the caller: "call", "analyzed", "done"
    args,            \* the arguments of the call being made
    layout,          \* the layout analysis handed from analyze_warehouse_layout to generate_channel_plan
    ret,             \* what the last call returned
    report_file,     \* channel_optimization_report.json: <<>> when absent, <<report>> when written
    channels_24ghz,  \* self.channels_24ghz, its keys in insertion order
    channels_5ghz,   \* self.channels_5ghz, its keys in insertion order
    channel_widths,  \* self.channel_widths, its keys
    rounded_as,      \* what round(total_bandwidth, 2) gave for each device mix rounded so far
    observed,        \* what the first call with given arguments returned, kept by the caller
    issue_history,   \* self.issue_history of the troubleshooter, oldest diagnosis first
    diagnostic_results,          \* self.diagnostic_results: <<>> for {}, or <<diagnosis>>
    troubleshooting_report_file, \* troubleshooting_report.json: <<>> when absent, <<report>> when written
    calls            \* the diagnose_issue calls the caller made: how many, and how many after the filling

vars == <<pc, args, layout, ret, report_file, channels_24ghz, channels_5ghz, channel_widths,
          rounded_as, observed,
          issue_history, diagnostic_results, troubleshooting_report_file, calls>>

catalog == <<channels_24ghz, channels_5ghz, channel_widths>>

\* the troubleshooter and its caller, which no method of the optimizer touches
toolkit == <<issue_history, diagnostic_results, troubleshooting_report_file, calls>>

-----------------------------------------------------------------------------
(* Bounds of the model *)

\* 2.4 GHz channel numbers 1..MaxChannel24 are tried as inputs of the overlap function
MaxChannel24 == 13

\* widths are the multiples of WidthStep metres from -2 * WidthStep to MaxWidthSteps * WidthStep
MaxWidthSteps == 16

\* lengths are the multiples of WidthStep metres from -2 * WidthStep to MaxLengthSteps * WidthStep
MaxLengthSteps == 4

\* device counts -1 .. MaxCount (and the counts of the bundled example)
MaxCount == 3

\* a device mix of the capacity checks names at most MaxMixTypes device types
MaxMixTypes == 2

\* datetime.now() returns one of the instants 1 .. MaxClock
MaxClock == 1

-----------------------------------------------------------------------------
(* Arithmetic helpers: Python's abs, max, min and math.ceil of a quotient *)

Abs(x) == IF x < 0 THEN -x ELSE x

Max(a, b) == IF a >= b THEN a ELSE b

Min(a, b) == IF a <= b THEN a ELSE b

\* math.ceil(a / b) for b > 0 and any integer a
CeilDiv(a, b) == -((-a) \div b)

-----------------------------------------------------------------------------
(* ChannelOptimizer.__init__ *)

Channels24Init == <<1, 6, 11>>

Channels5Init == <<36, 40, 44, 48, 149, 153, 157, 161>>

ChannelWidthsInit == {20, 40, 80}

\* WirelessTroubleshooter.__init__: an empty history, no diagnosis, no report written
InitTroubleshooter ==
    /\ issue_history = <<>>
    /\ diagnostic_results = <<>>
    /\ troubleshooting_report_file = <<>>
    /\ calls = [made |-> 0, free |-> 0]

InitOptimizer ==
    /\ InitTroubleshooter
    /\ channels_24ghz = Channels24Init
    /\ channels_5ghz = Channels5Init
    /\ channel_widths = ChannelWidthsInit
    /\ report_file = <<>>
    /\ layout = [kind |-> "none"]
    /\ ret = [kind |-> "none"]
    /\ rounded_as = [device_types \in {} |-> 0]
    /\ observed = [call \in {} |-> [kind |-> "none"]]

-----------------------------------------------------------------------------
(* calculate_channel_overlap: the overlap in percent *)

\* a variant that forgets abs(): the separation takes the sign of ch1 - ch2
calculate_channel_overlap_no_abs(ch1, ch2, band) ==
    IF band = "2.4"
    THEN LET separation == (ch1 - ch2) * 5
         IN  IF separation >= 25 THEN 0
             ELSE IF separation = 0 THEN 100
             ELSE ((25 - separation) * 100) \div 25
    ELSE IF ch1 = ch2 THEN 100 ELSE 0

\* a variant that applies the 2.4 GHz formula to the channel numbers of every band
calculate_channel_overlap_one_formula(ch1, ch2, band) ==
    LET separation == Abs(ch1 - ch2) * 5
    IN  IF separation >= 25 THEN 0
        ELSE IF separation = 0 THEN 100
        ELSE ((25 - separation) * 100) \div 25

calculate_channel_overlap(ch1, ch2, band) ==
    IF band = "2.4"
    THEN LET separation == Abs(ch1 - ch2) * 5
         IN  IF separation >= 25 THEN 0
             ELSE IF separation = 0 THEN 100
             ELSE ((25 - separation) * 100) \div 25
    ELSE IF ch1 = ch2 THEN 100 ELSE 0

CalculateChannelOverlap ==
    /\ pc = "call"
    /\ args.op = "calculate_channel_overlap"
    /\ ret' = [kind |-> "return",
               value |-> calculate_channel_overlap(args.ch1, args.ch2, args.band)]
    /\ pc' = "done"
    /\ UNCHANGED <<args, layout, report_file, catalog, toolkit, rounded_as, observed>>

-----------------------------------------------------------------------------
\* a caller that keeps the overlap of (ch1, ch2) and asks for the overlap of (ch2, ch1)
CallExchanged ==
    /\ pc = "done"
    /\ args.op = "calculate_channel_overlap"
    /\ DOMAIN observed = {}
    /\ observed' = (args :> ret) @@ observed
    /\ args' = [args EXCEPT !.ch1 = args.ch2, !.ch2 = args.ch1]
    /\ pc' = "call"
    /\ UNCHANGED <<layout, ret, report_file, catalog, toolkit, rounded_as>>

-----------------------------------------------------------------------------

(* analyze_warehouse_layout *)

coverage_radius == 25

HighCeiling == "High ceiling detected - consider downtilt antennas"

StandardCeiling == "Standard ceiling height - omnidirectional antennas suitable"

\* coverage_radius * 1.4, in tenths of a metre
grid_spacing_tenths == coverage_radius * 14

\* a variant that rounds the grid down: a partial cell gets no AP
analyze_warehouse_layout_floor(width_m, length_m, height_m) ==
    LET aps_width == (width_m * 10) \div grid_spacing_tenths
        aps_length == (length_m * 10) \div grid_spacing_tenths
        total_aps == aps_width * aps_length
        vertical_consideration ==
            IF height_m > 10 THEN HighCeiling ELSE StandardCeiling
    IN  [dimensions |-> [width |-> width_m, length |-> length_m, height |-> height_m],
         coverage_radius |-> coverage_radius,
         grid_spacing_tenths |-> grid_spacing_tenths,
         ap_grid |-> [width |-> aps_width, length |-> aps_length],
         total_aps |-> total_aps,
         vertical_consideration |-> vertical_consideration]

\* a variant that spaces the APs of a high-ceiling facility one coverage radius apart
analyze_warehouse_layout_dense_when_high(width_m, length_m, height_m) ==
    LET spacing == IF height_m > 10 THEN coverage_radius * 10 ELSE grid_spacing_tenths
        aps_width == CeilDiv(width_m * 10, spacing)
        aps_length == CeilDiv(length_m * 10, spacing)
        total_aps == aps_width * aps_length
        vertical_consideration ==
            IF height_m > 10 THEN HighCeiling ELSE StandardCeiling
    IN  [dimensions |-> [width |-> width_m, length |-> length_m, height |-> height_m],
         coverage_radius |-> coverage_radius,
         grid_spacing_tenths |-> grid_spacing_tenths,
         ap_grid |-> [width |-> aps_width, length |-> aps_length],
         total_aps |-> total_aps,
         vertical_consideration |-> vertical_consideration]

analyze_warehouse_layout(width_m, length_m, height_m) ==
    LET aps_width == CeilDiv(width_m * 10, grid_spacing_tenths)
        aps_length == CeilDiv(length_m * 10, grid_spacing_tenths)
        total_aps == aps_width * aps_length
        vertical_consideration ==
            IF height_m > 10 THEN HighCeiling ELSE StandardCeiling
    IN  [dimensions |-> [width |-> width_m, length |-> length_m, height |-> height_m],
         coverage_radius |-> coverage_radius,
         grid_spacing_tenths |-> grid_spacing_tenths,
         ap_grid |-> [width |-> aps_width, length |-> aps_length],
         total_aps |-> total_aps,
         vertical_consideration |-> vertical_consideration]

AnalyzeWarehouseLayout ==
    /\ pc = "call"
    /\ args.op = "generate_channel_plan"
    /\ layout' = analyze_warehouse_layout(args.width, args.length, args.height)
    /\ ret' = [kind |-> "return", value |-> layout']
    /\ pc' = "analyzed"
    /\ UNCHANGED <<args, report_file, catalog, toolkit, rounded_as, observed>>

-----------------------------------------------------------------------------
(* generate_channel_plan and its helpers *)

\* the decimal digits of n >= 0, most significant first
RECURSIVE Digits(_)
Digits(n) == IF n < 10 THEN <<n>> ELSE Append(Digits(n \div 10), n % 10)

\* the digits of format(n, "03d") for n >= 0: zero-padded to at least three digits
Format03d(n) ==
    LET d == Digits(n)
    IN  IF Len(d) >= 3 THEN d ELSE [i \in 1 .. 3 |-> IF i <= 3 - Len(d) THEN 0 ELSE d[i - (3 - Len(d))]]

\* f"AP-{ap_id:03d}"
ApId(ap_id) == [prefix |-> "AP-", digits |-> Format03d(ap_id)]

\* a variant whose thresholds are strict: a radius of exactly 20 or 30 falls in the higher tier
_calculate_tx_power_strict(radius) ==
    IF radius < 20 THEN "Low (10-13 dBm)"
    ELSE IF radius < 30 THEN "Medium (14-17 dBm)"
    ELSE "High (18-20 dBm)"

_calculate_tx_power(radius) ==
    IF radius <= 20 THEN "Low (10-13 dBm)"
    ELSE IF radius <= 30 THEN "Medium (14-17 dBm)"
    ELSE "High (18-20 dBm)"

\* a variant that, on a grid wider than the list, gives each channel to two neighbouring columns
_create_channel_pattern_blocks(channels, width) ==
    IF width <= Len(channels)
    THEN channels
    ELSE [i \in 1 .. width |-> channels[(((i - 1) \div 2) % Len(channels)) + 1]]

\* a variant that never cycles the channel list out to the grid's width
_create_channel_pattern_no_cycle(channels, width) == channels

\* a variant that cuts the channel list down to a narrow grid's width
_create_channel_pattern_truncated(channels, width) ==
    IF width <= Len(channels)
    THEN SubSeq(channels, 1, width)
    ELSE [i \in 1 .. width |-> channels[((i - 1) % Len(channels)) + 1]]

_create_channel_pattern(channels, width) ==
    IF width <= Len(channels)
    THEN channels
    ELSE [i \in 1 .. width |-> channels[((i - 1) % Len(channels)) + 1]]

\* a variant that records the position with row and column exchanged
ApConfig_transposed(layout_analysis, use_5ghz, channel_pattern, row, col, ap_id) ==
    LET channel_index == (col + row * layout_analysis.ap_grid.width) % Len(channel_pattern)
    IN  [ap_id |-> ApId(ap_id),
         position |-> [row |-> col, col |-> row],
         channel |-> channel_pattern[channel_index + 1],
         band |-> IF use_5ghz THEN "5GHz" ELSE "2.4GHz",
         tx_power |-> _calculate_tx_power(layout_analysis.coverage_radius)]

\* the body of the inner loop: the configuration of the AP of cell (row, col)
ApConfig(layout_analysis, use_5ghz, channel_pattern, row, col, ap_id) ==
    LET channel_index == (col + row * layout_analysis.ap_grid.width) % Len(channel_pattern)
    IN  [ap_id |-> ApId(ap_id),
         position |-> [row |-> row, col |-> col],
         channel |-> channel_pattern[channel_index + 1],
         band |-> IF use_5ghz THEN "5GHz" ELSE "2.4GHz",
         tx_power |-> _calculate_tx_power(layout_analysis.coverage_radius)]

\* the inner loop, for col in range(ap_grid["width"]), from column col on:
\* the loop's state st is the plan so far and the next ap_id.  (ap_id starts at 1
\* and only grows: the test st.ap_id < 1 is never true, it makes TLC evaluate st
\* at every iteration instead of nesting one unevaluated state per cell.)
RECURSIVE AssignCols(_, _, _, _, _, _)
AssignCols(layout_analysis, use_5ghz, channel_pattern, row, col, st) ==
    IF col >= layout_analysis.ap_grid.width \/ st.ap_id < 1 THEN st
    ELSE AssignCols(layout_analysis, use_5ghz, channel_pattern, row, col + 1,
                    [channel_plan |-> Append(st.channel_plan,
                                             ApConfig(layout_analysis, use_5ghz, channel_pattern,
                                                      row, col, st.ap_id)),
                     ap_id |-> st.ap_id + 1])

\* the outer loop, for row in range(ap_grid["length"]), from row on
RECURSIVE AssignRows(_, _, _, _, _)
AssignRows(layout_analysis, use_5ghz, channel_pattern, row, st) ==
    IF row >= layout_analysis.ap_grid.length THEN st
    ELSE AssignRows(layout_analysis, use_5ghz, channel_pattern, row + 1,
                    AssignCols(layout_analysis, use_5ghz, channel_pattern, row, 0, st))

\* a variant that takes the 5 GHz channels whatever band is asked for
generate_channel_plan_always_5ghz(layout_analysis, use_5ghz) ==
    LET channels == channels_5ghz
        channel_pattern == _create_channel_pattern(channels, layout_analysis.ap_grid.width)
    IN  AssignRows(layout_analysis, use_5ghz, channel_pattern, 0,
                   [channel_plan |-> <<>>, ap_id |-> 1]).channel_plan

\* a variant that keeps the layout it planned last and plans on it again, whatever layout
\* it is given
generate_channel_plan_on_kept_layout(layout_analysis, use_5ghz) ==
    LET kept == IF "ap_grid" \in DOMAIN layout THEN layout ELSE layout_analysis
        channels == IF use_5ghz THEN channels_5ghz ELSE <<1, 6, 11>>
        channel_pattern == _create_channel_pattern(channels, kept.ap_grid.width)
    IN  AssignRows(kept, use_5ghz, channel_pattern, 0,
                   [channel_plan |-> <<>>, ap_id |-> 1]).channel_plan

generate_channel_plan(layout_analysis, use_5ghz) ==
    LET channels == IF use_5ghz THEN channels_5ghz ELSE <<1, 6, 11>>
        channel_pattern == _create_channel_pattern(channels, layout_analysis.ap_grid.width)
    IN  AssignRows(layout_analysis, use_5ghz, channel_pattern, 0,
                   [channel_plan |-> <<>>, ap_id |-> 1]).channel_plan

GenerateChannelPlan ==
    /\ pc = "analyzed"
    /\ args.op = "generate_channel_plan"
    /\ ret' = [kind |-> "return", value |-> generate_channel_plan(layout, args.use_5ghz)]
    /\ pc' = "done"
    /\ UNCHANGED <<args, layout, report_file, catalog, toolkit, rounded_as, observed>>

-----------------------------------------------------------------------------
(* detect_interference_sources *)

InterferenceCatalog ==
    <<[type |-> "Bluetooth devices", frequency |-> "2.4 GHz", impact |-> "Low",
       mitigation |-> "Use 5GHz band for critical devices"],
      [type |-> "Microwave ovens (break rooms)", frequency |-> "2.45 GHz", impact |-> "High",
       mitigation |-> "Avoid channel 9-11 near break areas"],
      [type |-> "Wireless barcode scanners", frequency |-> "2.4 GHz", impact |-> "Medium",
       mitigation |-> "Implement band steering to 5GHz"],
      [type |-> "Security cameras (wireless)", frequency |-> "2.4/5 GHz", impact |-> "Medium",
       mitigation |-> "Use wired backhaul for cameras"],
      [type |-> "Industrial equipment (variable frequency drives)", frequency |-> "Broadband noise",
       impact |-> "Low-Medium", mitigation |-> "Ensure proper equipment shielding"]>>

\* a variant that draws with replacement (random.choices): a position may be drawn twice
RandomSample_with_replacement(population, k) ==
    {[i \in 1 .. k |-> population[pos[i]]] : pos \in [1 .. k -> 1 .. Len(population)]}

\* random.sample(population, k): every sequence of k distinct positions of the population
RandomSample(population, k) ==
    {[i \in 1 .. k |-> population[pos[i]]] :
        pos \in {q \in [1 .. k -> 1 .. Len(population)] : \A i, j \in 1 .. k : q[i] = q[j] => i = j}}

\* every outcome of detect_interference_sources: k = random.randint(2, 4), then the sample
detect_interference_sources ==
    UNION {RandomSample(InterferenceCatalog, k) : k \in 2 .. 4}

DetectInterferenceSources ==
    /\ pc = "call"
    /\ args.op = "detect_interference_sources"
    /\ \E detected \in detect_interference_sources :
           ret' = [kind |-> "return", value |-> detected]
    /\ pc' = "done"
    /\ UNCHANGED <<args, layout, report_file, catalog, toolkit, rounded_as, observed>>

-----------------------------------------------------------------------------
(* calculate_capacity_requirements: bandwidths in thousandths of a Mbps *)

bandwidth_per_device ==
    [handheld_scanner |-> 500, tablet |-> 2000, laptop |-> 5000,
     voice_device |-> 100, iot_sensor |-> 50, mobile_robot |-> 1000]

\* a variant whose default weight for an unknown device type is 0
BandwidthOf_default_zero(device_type) ==
    IF device_type \in DOMAIN bandwidth_per_device THEN bandwidth_per_device[device_type] ELSE 0

\* bandwidth_per_device.get(device_type, 1)
BandwidthOf(device_type) ==
    IF device_type \in DOMAIN bandwidth_per_device THEN bandwidth_per_device[device_type] ELSE 1000

\* the loop over device_types.items(): the sum of the per-type bandwidths of the types in S
RECURSIVE SumBandwidth(_, _)
SumBandwidth(device_types, S) ==
    IF S = {} THEN 0
    ELSE LET device_type == CHOOSE t \in S : TRUE
             bandwidth == BandwidthOf(device_type) * device_types[device_type]
         IN  bandwidth + SumBandwidth(device_types, S \ {device_type})

\* a variant that forgets the 30% overhead
WithOverhead_none(total_bandwidth) == total_bandwidth

\* total_bandwidth *= 1.3 (every weight is a multiple of 0.05 Mbps, so the product is
\* a whole number of thousandths)
WithOverhead(total_bandwidth) == (total_bandwidth * 13) \div 10

\* round(total_bandwidth, 2), in hundredths of a Mbps.  A value that lies exactly between
\* two hundredths (x.xx5) is not a float: the float nearest to it lies slightly below or
\* above, and round() goes that way (0.065 -> 0.07 but 1.625 -> 1.62 in CPython), so
\* both neighbours are outcomes.
Round2(total_bandwidth) ==
    LET q == total_bandwidth \div 10
        r == total_bandwidth % 10
    IN  IF r < 5 THEN {q} ELSE IF r > 5 THEN {q + 1} ELSE {q, q + 1}

\* every outcome of calculate_capacity_requirements (one per outcome of round)
calculate_capacity_requirements(num_devices, device_types) ==
    LET device_breakdown ==
            [device_type \in DOMAIN device_types |->
                [count |-> device_types[device_type],
                 bandwidth_per_device |-> BandwidthOf(device_type),
                 total_bandwidth |-> BandwidthOf(device_type) * device_types[device_type]]]
        total_bandwidth == WithOverhead(SumBandwidth(device_types, DOMAIN device_types))
        aps_for_capacity == CeilDiv(total_bandwidth, 150 * 1000)
    IN  {[total_devices |-> num_devices,
          device_breakdown |-> device_breakdown,
          total_bandwidth_required_cents |-> rounded,
          aps_for_capacity |-> aps_for_capacity] : rounded \in Round2(total_bandwidth)}

\* a variant in which round() may go either way each time a half-way total is rounded
RoundedAsBefore_either_way(device_types, capacities) == capacities

\* Float arithmetic is a function of its operands: whichever way round() went for a device
\* mix, it goes the same way whenever that mix is rounded again.  rounded_as keeps the
\* value round() gave for each mix rounded so far; of the outcomes listed for a mix that
\* was rounded before, the ones with that value remain.
RoundedAsBefore(device_types, capacities) ==
    IF device_types \in DOMAIN rounded_as
    THEN {capacity \in capacities :
            capacity.total_bandwidth_required_cents = rounded_as[device_types]}
    ELSE capacities

Rounded(device_types, capacity) ==
    IF device_types \in DOMAIN rounded_as
    THEN rounded_as
    ELSE (device_types :> capacity.total_bandwidth_required_cents) @@ rounded_as

CalculateCapacityRequirements ==
    /\ pc = "call"
    /\ args.op = "calculate_capacity_requirements"
    /\ \E capacity \in RoundedAsBefore(args.device_types,
               calculate_capacity_requirements(args.num_devices, args.device_types)) :
           /\ ret' = [kind |-> "return", value |-> capacity]
           /\ rounded_as' = Rounded(args.device_types, capacity)
    /\ pc' = "done"
    /\ UNCHANGED <<args, layout, report_file, catalog, toolkit, observed>>

-----------------------------------------------------------------------------
(* list(set(...)) of positive ints, as CPython builds and iterates a set: an open-addressed
   hash table (hash(n) = n) of 8 slots, grown to the least power of two above 4 * used once
   3/5 full, probed linearly over 9 slots where they fit and by the perturbed recurrence
   i = 5 * i + 1 + perturb otherwise, and iterated in slot order.  0 marks a free slot. *)

\* the slot where key is found or goes, probing from slot i
RECURSIVE SetSlot(_, _, _, _, _)
SetSlot(table, mask, key, i, perturb) ==
    LET probes == IF i + 9 <= mask THEN 9 ELSE 0
        hit == {j \in i .. i + probes : table[j] = 0 \/ table[j] = key}
    IN  IF hit # {}
        THEN CHOOSE j \in hit : \A h \in hit : j <= h
        ELSE SetSlot(table, mask, key, (i * 5 + 1 + perturb \div 32) % (mask + 1), perturb \div 32)

\* the table with the keys of old (slots from on) inserted in slot order
RECURSIVE SetReinsert(_, _, _, _)
SetReinsert(table, mask, old, from) ==
    IF from >= Len(old) THEN table
    ELSE LET key == old[from + 1]
         IN  IF key = 0 THEN SetReinsert(table, mask, old, from + 1)
             ELSE SetReinsert([table EXCEPT ![SetSlot(table, mask, key, key % (mask + 1), key)] = key],
                              mask, old, from + 1)

\* the least power of two, at least size, above minused
RECURSIVE SetNewSize(_, _)
SetNewSize(size, minused) == IF size > minused THEN size ELSE SetNewSize(size * 2, minused)

\* set.add(key)
SetAdd(so, key) ==
    LET slot == SetSlot(so.table, so.mask, key, key % (so.mask + 1), key)
    IN  IF so.table[slot] = key THEN so
        ELSE LET table == [so.table EXCEPT ![slot] = key]
                 fill == so.fill + 1
             IN  IF fill * 5 < so.mask * 3
                 THEN [table |-> table, mask |-> so.mask, fill |-> fill]
                 ELSE LET newsize == SetNewSize(8, fill * 4)
                          old == [i \in 1 .. so.mask + 1 |-> table[i - 1]]
                      IN  [table |-> SetReinsert([i \in 0 .. newsize - 1 |-> 0], newsize - 1, old, 0),
                           mask |-> newsize - 1,
                           fill |-> fill]

\* set(keys): the keys first .. last added one by one, in order, to the table so: the
\* first half of them, then the second half, which keeps the recursion shallow on a plan
\* of many cells.  (fill is never negative: the test makes TLC evaluate the table at every
\* step, as in AssignCols.)
RECURSIVE SetOf(_, _, _, _)
SetOf(keys, first, last, so) ==
    IF first > last \/ so.fill < 0 THEN so
    ELSE IF first = last THEN SetAdd(so, keys[first])
    ELSE LET middle == (first + last) \div 2
         IN  SetOf(keys, middle + 1, last, SetOf(keys, first, middle, so))

\* the used slots of a table in slot order, from slot i on (Len(items) < 0 is never
\* true: it makes TLC evaluate items at every step)
RECURSIVE SetItems(_, _, _)
SetItems(so, i, items) ==
    IF i > so.mask \/ Len(items) < 0 THEN items
    ELSE SetItems(so, i + 1, IF so.table[i] = 0 THEN items ELSE Append(items, so.table[i]))

\* list(set(keys))
ListOfSet(keys) ==
    SetItems(SetOf(keys, 1, Len(keys), [table |-> [i \in 0 .. 7 |-> 0], mask |-> 7, fill |-> 0]),
             0, <<>>)

-----------------------------------------------------------------------------
(* generate_optimization_report *)

\* a variant whose TX power recommendation follows the size of the deployment
Recommendations_power_by_size(final_ap_count) ==
    <<(<<"Deploy ", final_ap_count, " access points in a grid pattern">>),
      "Use 5 GHz as primary band with DFS channels enabled",
      "Implement band steering to move capable devices to 5 GHz",
      "Configure 20 MHz channels for maximum capacity",
      IF final_ap_count > 50
      THEN "Set TX power to low (10-13 dBm) for optimal coverage"
      ELSE "Set TX power to medium (14-17 dBm) for optimal coverage",
      "Enable 802.11k/v/r for seamless roaming",
      "Implement QoS with voice devices on highest priority">>

Recommendations(final_ap_count) ==
    <<(<<"Deploy ", final_ap_count, " access points in a grid pattern">>),
      "Use 5 GHz as primary band with DFS channels enabled",
      "Implement band steering to move capable devices to 5 GHz",
      "Configure 20 MHz channels for maximum capacity",
      "Set TX power to medium (14-17 dBm) for optimal coverage",
      "Enable 802.11k/v/r for seamless roaming",
      "Implement QoS with voice devices on highest priority">>

\* a variant that recommends the coverage-driven count alone
FinalApCount_coverage_only(layout_analysis, capacity) == layout_analysis.total_aps

\* max(layout["total_aps"], capacity["aps_for_capacity"])
FinalApCount(layout_analysis, capacity) ==
    Max(layout_analysis.total_aps, capacity.aps_for_capacity)

\* a variant that summarises the sample: channels_used lists the channels of the first
\* five assignments only
BuildReport_channels_of_sample(warehouse_name, now, layout_analysis, channel_plan, interference, capacity) ==
    LET final_ap_count == FinalApCount(layout_analysis, capacity)
        sample_assignments == SubSeq(channel_plan, 1, Min(5, Len(channel_plan)))
    IN  [warehouse |-> warehouse_name,
         timestamp |-> now,
         executive_summary |->
             [recommended_aps |-> final_ap_count,
              primary_band |-> "5 GHz",
              secondary_band |-> "2.4 GHz (IoT and legacy devices)",
              estimated_coverage |-> "99.9%"],
         layout_analysis |-> layout_analysis,
         capacity_analysis |-> capacity,
         channel_plan_summary |->
             [total_aps |-> Len(channel_plan),
              channels_used |->
                  ListOfSet([k \in 1 .. Len(sample_assignments) |-> sample_assignments[k].channel]),
              sample_assignments |-> sample_assignments],
         interference_analysis |-> interference,
         recommendations |-> Recommendations(final_ap_count)]

\* the report dictionary built from the four analyses at time now
BuildReport(warehouse_name, now, layout_analysis, channel_plan, interference, capacity) ==
    LET final_ap_count == FinalApCount(layout_analysis, capacity)
    IN  [warehouse |-> warehouse_name,
         timestamp |-> now,
         executive_summary |->
             [recommended_aps |-> final_ap_count,
              primary_band |-> "5 GHz",
              secondary_band |-> "2.4 GHz (IoT and legacy devices)",
              estimated_coverage |-> "99.9%"],
         layout_analysis |-> layout_analysis,
         capacity_analysis |-> capacity,
         channel_plan_summary |->
             [total_aps |-> Len(channel_plan),
              channels_used |-> ListOfSet([k \in 1 .. Len(channel_plan) |-> channel_plan[k].channel]),
              sample_assignments |-> SubSeq(channel_plan, 1, Min(5, Len(channel_plan)))],
         interference_analysis |-> interference,
         recommendations |-> Recommendations(final_ap_count)]

\* every report generate_optimization_report can build: one per outcome of the
\* interference sampling, of the rounding and of the clock
generate_optimization_report(warehouse_name, dimensions, device_info, clock) ==
    LET layout_analysis ==
            analyze_warehouse_layout(dimensions.width, dimensions.length, dimensions.height)
        channel_plan == generate_channel_plan(layout_analysis, TRUE)
    IN  {BuildReport(warehouse_name, now, layout_analysis, channel_plan, interference, capacity) :
            interference \in detect_interference_sources,
            capacity \in calculate_capacity_requirements(device_info.total_devices,
                                                         device_info.device_types),
            now \in clock}

\* a variant that leaves the interference findings out of the file
JsonDump_without_interference(report) ==
    [key \in DOMAIN report \ {"interference_analysis"} |-> report[key]]

\* json.dump(report, f, indent=2), as the value a reader of the file gets back: every key
\* of the report is a string and every value a string, an int, a float, a list or a
\* dict, which JSON writes in full
JsonDump(report) == report

\* the whole method; the write at its end succeeds, or open() fails (the file is left as
\* it was), or json.dump fails after open() truncated the file
GenerateOptimizationReport ==
    /\ pc = "call"
    /\ args.op = "generate_optimization_report"
    /\ \E report \in generate_optimization_report(args.warehouse_name, args.dimensions,
                                                  args.device_info, 1 .. MaxClock) :
           /\ report.capacity_analysis \in
                  RoundedAsBefore(args.device_info.device_types, {report.capacity_analysis})
           /\ rounded_as' = Rounded(args.device_info.device_types, report.capacity_analysis)
           /\ \/ /\ report_file' = <<JsonDump(report)>>
                 /\ ret' = [kind |-> "return", value |-> report]
              \/ /\ ret' = [kind |-> "raise", error |-> "OSError"]
                 /\ UNCHANGED report_file
              \/ /\ ret' = [kind |-> "raise", error |-> "OSError"]
                 /\ report_file' = <<[truncated |-> TRUE]>>
    /\ pc' = "done"
    /\ UNCHANGED <<args, layout, catalog, toolkit, observed>>

-----------------------------------------------------------------------------
(* visualize_plan.py: visualize_channel_plan.  What it prints is kept with its result, as
   the sequence of the printed items; the fixed headings and rules are left out. *)

NoReportMessage == "No report found. Run channel_optimizer.py first."

\* json.load of what json.dump wrote: the report's keys are strings and its values are
\* strings, ints, floats, lists and dicts, which JSON gives back as they were
JsonLoad(content) == content

\* f"{channel:>3}": the digits of the channel after the spaces that fill three columns
RightAligned3(channel) ==
    [spaces |-> Max(0, 3 - Len(Digits(channel))), digits |-> Digits(channel)]

\* list * times: the list repeated, empty when times <= 0
RECURSIVE Repeated(_, _)
Repeated(list, times) ==
    IF times <= 0 THEN <<>> ELSE list \o Repeated(list, times - 1)

\* sorted(list)
RECURSIVE Sorted(_)
Sorted(list) ==
    IF list = <<>> THEN <<>>
    ELSE LET least == CHOOSE i \in 1 .. Len(list) :
                          \A j \in 1 .. Len(list) : list[i] < list[j] \/ (list[i] = list[j] /\ i <= j)
         IN  <<list[least]>> \o
             Sorted([k \in 1 .. Len(list) - 1 |-> IF k < least THEN list[k] ELSE list[k + 1]])

\* f"{coverage_area / aps:.1f}" for aps > 0, in tenths.  A quotient half-way between two
\* tenths is a float when it ends in .25 or .75, and is then formatted to the even tenth;
\* any other half-way quotient is not a float and the float nearest to it decides, so both
\* neighbours are outcomes.
AreaPerAp(coverage_area, aps) ==
    LET q == (coverage_area * 10) \div aps
        r == (coverage_area * 10) % aps
    IN  IF 2 * r < aps THEN {q}
        ELSE IF 2 * r > aps THEN {q + 1}
        ELSE IF (coverage_area * 100) % (aps * 25) = 0
             THEN {IF q % 2 = 0 THEN q ELSE q + 1}
             ELSE {q, q + 1}

\* lines 54-56: the cell of row and col (counted from 0)
RenderedCell(channel_pattern, width, row, col) ==
    RightAligned3(channel_pattern[((row * width + col) % Len(channel_pattern)) + 1])

\* lines 51-58: the printed rows, each with its label row + 1
RenderedRows(channel_pattern, width, length) ==
    [row \in 1 .. Max(0, Min(length, 10)) |->
        [label |-> row,
         cells |-> [col \in 1 .. Max(0, Min(width, 15)) |->
                       RenderedCell(channel_pattern, width, row - 1, col - 1)]]]

\* every outcome of visualize_channel_plan on the report file content: what was
\* printed, and the return of None or the exception that ended the call
visualize_channel_plan(content) ==
    IF content = <<>>
    THEN {[kind |-> "return", value |-> "None", printed |-> <<[line |-> NoReportMessage]>>]}
    ELSE IF "layout_analysis" \notin DOMAIN content[1]
    THEN {[kind |-> "raise", error |-> "JSONDecodeError", printed |-> <<>>]}
    ELSE
    LET report == JsonLoad(content[1])
        width == report.layout_analysis.ap_grid.width
        length == report.layout_analysis.ap_grid.length
        header == [line |-> "header",
                   facility |-> report.warehouse,
                   grid_size |-> <<width, length>>,
                   primary_band |-> report.executive_summary.primary_band]
        channels_used == report.channel_plan_summary.channels_used
    IN  IF Len(channels_used) = 0
        THEN {[kind |-> "raise", error |-> "ZeroDivisionError", printed |-> <<header>>]}
        ELSE
        LET channel_pattern ==
                Repeated(channels_used, (width * length) \div Len(channels_used) + 1)
        IN  IF Len(channel_pattern) = 0 /\ Min(length, 10) > 0 /\ Min(width, 15) > 0
            THEN {[kind |-> "raise", error |-> "ZeroDivisionError", printed |-> <<header>>]}
            ELSE
            LET grid == [line |-> "grid", rows |-> RenderedRows(channel_pattern, width, length)]
                partial == IF length > 10 \/ width > 15
                           THEN <<[line |-> "partial"]>>
                           ELSE <<>>
                sorted_channels == Sorted(channels_used)
                usage == [line |-> "usage",
                          unique_channels |-> Len(channels_used),
                          channels |-> sorted_channels]
            IN  IF Len(sorted_channels) < 2
                THEN {[kind |-> "raise", error |-> "ValueError",
                       printed |-> <<header, grid>> \o partial \o <<usage>>]}
                ELSE
                LET min_separation ==
                        CHOOSE d \in {sorted_channels[i + 1] - sorted_channels[i] :
                                         i \in 1 .. Len(sorted_channels) - 1} :
                            \A i \in 1 .. Len(sorted_channels) - 1 :
                                d <= sorted_channels[i + 1] - sorted_channels[i]
                    separation == [line |-> "separation", mhz |-> min_separation * 5]
                    dimensions == report.layout_analysis.dimensions
                    coverage_area == dimensions.width * dimensions.length
                    area == [line |-> "area",
                             total_area |-> coverage_area,
                             aps_deployed |-> width * length]
                    so_far == <<header, grid>> \o partial \o <<usage, separation, area>>
                IN  IF width * length = 0
                    THEN {[kind |-> "raise", error |-> "ZeroDivisionError", printed |-> so_far]}
                    ELSE {[kind |-> "return", value |-> "None",
                           printed |-> so_far \o
                               <<[line |-> "coverage",
                                  area_per_ap_tenths |-> area_per_ap,
                                  estimated_coverage |->
                                      report.executive_summary.estimated_coverage]>>] :
                            area_per_ap \in AreaPerAp(coverage_area, width * length)}

VisualizeChannelPlan ==
    /\ pc = "call"
    /\ args.op = "visualize_channel_plan"
    /\ \E outcome \in visualize_channel_plan(report_file) : ret' = outcome
    /\ pc' = "done"
    /\ UNCHANGED <<args, layout, report_file, catalog, toolkit, rounded_as, observed>>

\* the user runs visualize_plan.py after channel_optimizer.py has ended
RunVisualizer ==
    /\ pc = "done"
    /\ args.op = "generate_optimization_report"
    /\ observed' = (args :> ret) @@ observed
    /\ args' = [op |-> "visualize_channel_plan"]
    /\ pc' = "call"
    /\ ret' = [kind |-> "none"]
    /\ UNCHANGED <<layout, report_file, catalog, toolkit, rounded_as>>

-----------------------------------------------------------------------------

(* Inputs *)

WidthStep == 25

Widths == {WidthStep * k : k \in -2 .. MaxWidthSteps}

Lengths == {WidthStep * k : k \in -2 .. MaxLengthSteps} \cup {300}

Heights == {-1, 0, 8, 10, 12}

Bands == {"2.4", "5"}

OverlapCalls ==
    [op : {"calculate_channel_overlap"}, ch1 : 1 .. MaxChannel24, ch2 : 1 .. MaxChannel24, band : {"2.4"}]
    \cup
    [op : {"calculate_channel_overlap"},
     ch1 : {Channels5Init[i] : i \in 1 .. Len(Channels5Init)},
     ch2 : {Channels5Init[i] : i \in 1 .. Len(Channels5Init)},
     band : {"5"}]

PlanCalls ==
    [op : {"generate_channel_plan"}, width : Widths, length : Lengths, height : Heights,
     use_5ghz : BOOLEAN]

\* layouts a caller of generate_channel_plan builds itself: the three keys the method reads,
\* with a coverage radius of 1 .. MaxRadius metres and a grid of up to MaxGrid x MaxGrid
MaxRadius == 35

MaxGrid == 2

HandBuiltLayouts ==
    {[coverage_radius |-> radius,
      ap_grid |-> [width |-> aps_width, length |-> aps_length],
      total_aps |-> aps_width * aps_length] :
        radius \in 1 .. MaxRadius, aps_width \in 1 .. MaxGrid, aps_length \in 1 .. MaxGrid}

HandBuiltPlanCalls == [op : {"generate_channel_plan"}, use_5ghz : BOOLEAN]

DeviceTypeLabels == DOMAIN bandwidth_per_device \cup {"forklift_terminal"}

Counts == (-1 .. MaxCount) \cup {30, 200}

\* the device mix of main()
ExampleMix ==
    [handheld_scanner |-> 200, tablet |-> 50, laptop |-> 30,
     voice_device |-> 150, iot_sensor |-> 50, mobile_robot |-> 20]

Mixes ==
    UNION {[S -> Counts] : S \in {T \in SUBSET DeviceTypeLabels : Cardinality(T) <= MaxMixTypes}}
    \cup {ExampleMix}

RECURSIVE CountDevices(_, _)
CountDevices(device_types, S) ==
    IF S = {} THEN 0
    ELSE LET t == CHOOSE x \in S : TRUE
         IN  device_types[t] + CountDevices(device_types, S \ {t})

CapacityCalls ==
    {[op |-> "calculate_capacity_requirements",
      num_devices |-> CountDevices(m, DOMAIN m),
      device_types |-> m] : m \in Mixes}

ReportMixes ==
    {ExampleMix,
     [t \in {} |-> 0],
     [t \in {"laptop"} |-> 200],
     [t \in {"laptop"} |-> -1],
     [t \in {"iot_sensor"} |-> 1],
     [t \in {"forklift_terminal"} |-> 3]}

ReportDimensions ==
    [width : {-2 * WidthStep, 0, WidthStep, 200},
     length : {-2 * WidthStep, 0, WidthStep, 300},
     height : {0, 8, 12}]

ReportCalls ==
    {[op |-> "generate_optimization_report",
      warehouse_name |-> "FC-EXAMPLE-01",
      dimensions |-> d,
      device_info |-> [total_devices |-> CountDevices(m, DOMAIN m), device_types |-> m]] :
        d \in ReportDimensions, m \in ReportMixes}

-----------------------------------------------------------------------------


(* Specifications *)

InitOverlap == InitOptimizer /\ pc = "call" /\ args \in OverlapCalls

NextOverlap == CalculateChannelOverlap

SpecOverlap == InitOverlap /\ [][NextOverlap]_vars

NextExchanged == CalculateChannelOverlap \/ CallExchanged

SpecExchanged == InitOverlap /\ [][NextExchanged]_vars

InitPlan == InitOptimizer /\ pc = "call" /\ args \in PlanCalls

NextPlan == AnalyzeWarehouseLayout \/ GenerateChannelPlan

SpecPlan == InitPlan /\ [][NextPlan]_vars

\* generate_channel_plan on the layout of analyze_warehouse_layout or on a hand-built one
InitTxPower ==
    \/ InitPlan
    \/ /\ InitTroubleshooter
       /\ channels_24ghz = Channels24Init
       /\ channels_5ghz = Channels5Init
       /\ channel_widths = ChannelWidthsInit
       /\ report_file = <<>>
       /\ ret = [kind |-> "none"]
       /\ rounded_as = [device_types \in {} |-> 0]
       /\ observed = [call \in {} |-> [kind |-> "none"]]
       /\ pc = "analyzed"
       /\ args \in HandBuiltPlanCalls
       /\ layout \in HandBuiltLayouts

SpecTxPower == InitTxPower /\ [][NextPlan]_vars

InterferenceCalls == [op : {"detect_interference_sources"}]

InitInterference == InitOptimizer /\ pc = "call" /\ args \in InterferenceCalls

NextInterference == DetectInterferenceSources

SpecInterference == InitInterference /\ [][NextInterference]_vars

\* a caller that makes one call after another on the same optimizer: the calls of
\* RepeatedCalls in any order, any number of times
RepeatedCalls ==
    [op : {"generate_channel_plan"}, width : {25, 200}, length : {300}, height : {8, 12},
     use_5ghz : {TRUE}]
    \cup {[op |-> "calculate_capacity_requirements",
           num_devices |-> CountDevices(m, DOMAIN m),
           device_types |-> m] : m \in {ExampleMix, [t \in {"iot_sensor"} |-> 1],
                                        [t \in {"iot_sensor", "tablet"} |-> 3]}}
    \cup [op : {"calculate_channel_overlap"}, ch1 : {1}, ch2 : {3}, band : {"2.4"}]
    \cup InterferenceCalls

\* what the finished call returned, for the two methods whose results the caller keeps:
\* the layout analysis (made on the way to the channel plan) and the capacity estimate
Kept ==
    IF args.op = "generate_channel_plan"
    THEN [kind |-> "return", value |-> layout]
    ELSE ret

\* the caller files the result of the finished call under its arguments, unless a result
\* is filed under them already, drops its local values and makes another call
CallAgain ==
    /\ pc = "done"
    /\ observed' =
           IF /\ args.op \in {"generate_channel_plan", "calculate_capacity_requirements"}
              /\ args \notin DOMAIN observed
           THEN (args :> Kept) @@ observed
           ELSE observed
    /\ \E call \in RepeatedCalls : args' = call
    /\ pc' = "call"
    /\ layout' = [kind |-> "none"]
    /\ ret' = [kind |-> "none"]
    /\ UNCHANGED <<report_file, catalog, toolkit, rounded_as>>

InitRepeated == InitOptimizer /\ pc = "call" /\ args \in RepeatedCalls

NextRepeated ==
    \/ AnalyzeWarehouseLayout
    \/ GenerateChannelPlan
    \/ CalculateCapacityRequirements
    \/ CalculateChannelOverlap
    \/ DetectInterferenceSources
    \/ CallAgain

SpecRepeated == InitRepeated /\ [][NextRepeated]_vars

\* A user runs channel_optimizer.py and then visualize_plan.py, or visualize_plan.py
\* alone, in a directory where an earlier run may have left its report.
VisualizedDimensions ==
    [width : {-2 * WidthStep, 0, WidthStep, 200, 550},
     length : {WidthStep, 300, 375},
     height : {12}]

VisualizedCalls ==
    {[op |-> "generate_optimization_report",
      warehouse_name |-> "FC-EXAMPLE-01",
      dimensions |-> d,
      device_info |-> [total_devices |-> CountDevices(ExampleMix, DOMAIN ExampleMix),
                       device_types |-> ExampleMix]] : d \in VisualizedDimensions}
    \cup {[op |-> "visualize_channel_plan"]}

\* the report an earlier run on a 200 m x 25 m facility left, at instant 0
EarlierReports ==
    {report \in generate_optimization_report(
                    "FC-EARLIER", [width |-> 200, length |-> WidthStep, height |-> 8],
                    [total_devices |-> 1, device_types |-> [t \in {"tablet"} |-> 1]], {0}) :
        report.interference_analysis = SubSeq(InterferenceCatalog, 1, 2)}

InitVisualize ==
    /\ InitTroubleshooter
    /\ channels_24ghz = Channels24Init
    /\ channels_5ghz = Channels5Init
    /\ channel_widths = ChannelWidthsInit
    /\ report_file \in {<<>>} \cup {<<report>> : report \in EarlierReports}
    /\ layout = [kind |-> "none"]
    /\ ret = [kind |-> "none"]
    /\ rounded_as = [device_types \in {} |-> 0]
    /\ observed = [call \in {} |-> [kind |-> "none"]]
    /\ pc = "call"
    /\ args \in VisualizedCalls

NextVisualize == GenerateOptimizationReport \/ RunVisualizer \/ VisualizeChannelPlan

SpecVisualize == InitVisualize /\ [][NextVisualize]_vars

\* a caller that makes one planning run after another on the same optimizer, with calls of
\* the other operations in between: the calls of RunCalls in any order, any number of
\* times, in a directory where an earlier run on another facility may have left its report
RunCalls ==
    {[op |-> "generate_optimization_report",
      warehouse_name |-> "FC-EXAMPLE-01",
      dimensions |-> [width |-> 50, length |-> 25, height |-> 12],
      device_info |-> [total_devices |-> 3, device_types |-> [t \in {"tablet"} |-> 3]]]}
    \cup [op : {"generate_channel_plan"}, width : {25}, length : {50}, height : {8},
          use_5ghz : {FALSE}]
    \cup {[op |-> "calculate_capacity_requirements",
           num_devices |-> 3,
           device_types |-> [t \in {"tablet"} |-> 3]]}
    \cup [op : {"calculate_channel_overlap"}, ch1 : {1}, ch2 : {3}, band : {"2.4"}]
    \cup InterferenceCalls

\* the parts of a report that come from the run's dimensions and device mix
RunParts(report) ==
    [layout_analysis |-> report.layout_analysis,
     capacity_analysis |-> report.capacity_analysis,
     channel_plan_summary |-> report.channel_plan_summary]

\* the caller files these parts of the report of a finished run under the run's arguments,
\* unless it filed a report of such a run before, and makes another call
RunAgain ==
    /\ pc = "done"
    /\ observed' =
           IF /\ args.op = "generate_optimization_report"
              /\ ret.kind = "return"
              /\ args \notin DOMAIN observed
           THEN (args :> RunParts(ret.value)) @@ observed
           ELSE observed
    /\ \E call \in RunCalls : args' = call
    /\ pc' = "call"
    /\ ret' = [kind |-> "none"]
    /\ UNCHANGED <<layout, report_file, catalog, toolkit, rounded_as>>

InitRuns ==
    /\ InitTroubleshooter
    /\ channels_24ghz = Channels24Init
    /\ channels_5ghz = Channels5Init
    /\ channel_widths = ChannelWidthsInit
    /\ layout = [kind |-> "none"]
    /\ ret = [kind |-> "none"]
    /\ rounded_as = [device_types \in {} |-> 0]
    /\ observed = [call \in {} |-> [kind |-> "none"]]
    /\ report_file \in {<<>>} \cup {<<report>> : report \in EarlierReports}
    /\ pc = "call"
    /\ args \in RunCalls

NextRuns ==
    \/ CalculateChannelOverlap
    \/ AnalyzeWarehouseLayout
    \/ GenerateChannelPlan
    \/ DetectInterferenceSources
    \/ CalculateCapacityRequirements
    \/ GenerateOptimizationReport
    \/ RunAgain

SpecRuns == InitRuns /\ [][NextRuns]_vars

InitCapacity == InitOptimizer /\ pc = "call" /\ args \in CapacityCalls

NextCapacity == CalculateCapacityRequirements

SpecCapacity == InitCapacity /\ [][NextCapacity]_vars

InitReport == InitOptimizer /\ pc = "call" /\ args \in ReportCalls

NextReport == GenerateOptimizationReport

SpecReport == InitReport /\ [][NextReport]_vars

-----------------------------------------------------------------------------
(* Claims about the 5 GHz overlap and the symmetry of the overlap (SpecOverlap, SpecExchanged) *)

OverlapReturned == pc = "done" /\ args.op = "calculate_channel_overlap" /\ ret.kind = "return"

\* C11: in the 5 GHz band the overlap of two channels is 100 when they are the same channel
\* and 0 otherwise, never a partial value.
C11_Overlap5GHz ==
    (OverlapReturned /\ args.band = "5") =>
        /\ ret.value \in {0, 100}
        /\ (args.ch1 = args.ch2) => ret.value = 100
        /\ (args.ch1 # args.ch2) => ret.value = 0

\* two neighbouring 5 GHz channels, 20 MHz apart, were compared
C11_Witness ==
    /\ OverlapReturned
    /\ args.band = "5"
    /\ args.ch1 = 36
    /\ args.ch2 = 40
    /\ ret.value = 0

\* the arguments of the call with the two channels exchanged
Exchanged(call) == [call EXCEPT !.ch1 = call.ch2, !.ch2 = call.ch1]

\* C12: in both bands the overlap of (a, b) is the overlap of (b, a): the second call, made
\* with the channels of the first exchanged, returns what the first returned.
C12_OverlapSymmetric ==
    (OverlapReturned /\ Exchanged(args) \in DOMAIN observed) =>
        ret = observed[Exchanged(args)]

\* both orders of a partially overlapping 2.4 GHz pair were asked
C12_Witness ==
    /\ OverlapReturned
    /\ Exchanged(args) \in DOMAIN observed
    /\ args.band = "2.4"
    /\ args.ch1 = 3
    /\ args.ch2 = 1
    /\ ret.value = 60

-----------------------------------------------------------------------------

(* Claims about the layout analysis and the channel plan (SpecPlan) *)

PlanCall == args.op = "generate_channel_plan"

Analyzed == PlanCall /\ pc \in {"analyzed", "done"}

Planned == PlanCall /\ pc = "done"

\* n is math.ceil(x / 35): the least integer n with 35 * n >= x
IsCeilOf35(n, x) == 35 * n >= x /\ 35 * (n - 1) < x

\* C2: for positive width and length the layout has coverage radius 25, grid spacing
\* 35 m, columns = ceil(width / 35), rows = ceil(length / 35) and total_aps = columns x
\* rows, so a partial cell gets a full AP; 200 x 300 m gives 6 columns, 9 rows, 54 APs.
C2_LayoutGrid ==
    (Analyzed /\ args.width > 0 /\ args.length > 0) =>
        /\ layout.coverage_radius = 25
        /\ layout.grid_spacing_tenths = 350
        /\ IsCeilOf35(layout.ap_grid.width, args.width)
        /\ IsCeilOf35(layout.ap_grid.length, args.length)
        /\ layout.total_aps = layout.ap_grid.width * layout.ap_grid.length
        /\ layout.total_aps >= 1
        /\ (args.width = 200 /\ args.length = 300) =>
               /\ layout.ap_grid = [width |-> 6, length |-> 9]
               /\ layout.total_aps = 54

\* the 200 x 300 m facility, whose last column and last row are partial cells, analysed
C2_Witness ==
    /\ Analyzed /\ args.width = 200 /\ args.length = 300
    /\ layout.total_aps = 54

\* the number a sequence of decimal digits denotes
RECURSIVE DigitsValue(_)
DigitsValue(d) ==
    IF Len(d) = 0 THEN 0 ELSE 10 * DigitsValue(SubSeq(d, 1, Len(d) - 1)) + d[Len(d)]

\* id is "AP-" followed by k in decimal, zero-padded to three digits
IsApIdOf(id, k) ==
    /\ id.prefix = "AP-"
    /\ \A i \in 1 .. Len(id.digits) : id.digits[i] \in 0 .. 9
    /\ DigitsValue(id.digits) = k
    /\ Len(id.digits) >= 3
    /\ Len(id.digits) > 3 => id.digits[1] # 0

\* C5: for rows >= 1 and columns >= 1 the plan has rows x columns assignments, one per
\* grid cell and no cell twice, in row-major order; the k-th assignment (from 1) sits at
\* (row, col) with k = row x columns + col + 1 and is named AP-k, zero-padded to three
\* digits, so the identifiers are sequential and unique.
C5_PlanRowMajor ==
    (Planned /\ layout.ap_grid.width >= 1 /\ layout.ap_grid.length >= 1) =>
        LET plan == ret.value
            columns == layout.ap_grid.width
            rows == layout.ap_grid.length
        IN  /\ Len(plan) = rows * columns
            /\ \A k \in 1 .. Len(plan) :
                   /\ plan[k].position.row \in 0 .. rows - 1
                   /\ plan[k].position.col \in 0 .. columns - 1
                   /\ k = plan[k].position.row * columns + plan[k].position.col + 1
                   /\ IsApIdOf(plan[k].ap_id, k)
            /\ \A r \in 0 .. rows - 1 : \A c \in 0 .. columns - 1 :
                   Cardinality({k \in 1 .. Len(plan) :
                                   plan[k].position = [row |-> r, col |-> c]}) = 1
            /\ \A j, k \in 1 .. Len(plan) : plan[j].ap_id = plan[k].ap_id => j = k

\* a plan of several rows and columns with more than 99 APs: the last identifier has
\* three significant digits
C5_Witness ==
    /\ Planned /\ layout.ap_grid.width >= 2 /\ layout.ap_grid.length >= 2
    /\ Len(ret.value) >= 100
    /\ ret.value[100].ap_id.digits = <<1, 0, 0>>

\* the band's ordered channel list
BandChannels(use_5ghz) ==
    IF use_5ghz THEN <<36, 40, 44, 48, 149, 153, 157, 161>> ELSE <<1, 6, 11>>

\* the pattern the claim describes: the channel list itself for a grid no wider than the
\* list, otherwise the list of length columns whose i-th entry (from 0) is channels[i mod n]
ClaimedPattern(channels, columns) ==
    IF columns <= Len(channels)
    THEN channels
    ELSE [i \in 1 .. columns |-> channels[((i - 1) % Len(channels)) + 1]]

\* C6: in either band the channel of cell (row, col) is
\* pattern[(col + row x columns) mod length(pattern)], with the pattern as described.
C6_ChannelOfCell ==
    Planned =>
        LET plan == ret.value
            columns == layout.ap_grid.width
            pattern == ClaimedPattern(BandChannels(args.use_5ghz), columns)
        IN  \A k \in 1 .. Len(plan) :
                LET row == plan[k].position.row
                    col == plan[k].position.col
                IN  plan[k].channel = pattern[((col + row * columns) % Len(pattern)) + 1]

\* a 5 GHz grid wider than the eight channels, with a second row whose first cell restarts
\* the pattern (with the bare channel list it would continue it)
C6_Witness ==
    /\ Planned /\ args.use_5ghz
    /\ layout.ap_grid.width > 8 /\ layout.ap_grid.length >= 2
    /\ ret.value[layout.ap_grid.width + 1].position = [row |-> 1, col |-> 0]
    /\ ret.value[layout.ap_grid.width + 1].channel = 36

\* C7: in a 2.4 GHz plan the pattern 1, 6, 11 is reused cyclically without truncation:
\* on a grid narrower than three columns the k-th cell in visiting order gets the
\* (k mod 3)-th channel of 1, 6, 11, and in a grid that has a column 3, column 0 and
\* column 3 of the same row get the same channel.
C7_CyclicReuse24 ==
    (Planned /\ ~args.use_5ghz) =>
        LET plan == ret.value
            columns == layout.ap_grid.width
        IN  /\ columns < 3 =>
                   \A k \in 1 .. Len(plan) : plan[k].channel = <<1, 6, 11>>[((k - 1) % 3) + 1]
            /\ columns >= 4 =>
                   \A j, k \in 1 .. Len(plan) :
                       (/\ plan[j].position.row = plan[k].position.row
                        /\ plan[j].position.col = 0
                        /\ plan[k].position.col = 3) => plan[j].channel = plan[k].channel

\* a 2.4 GHz grid of two columns whose third cell, the first of the second row, gets 11
C7_Witness ==
    /\ Planned /\ ~args.use_5ghz
    /\ layout.ap_grid.width = 2 /\ layout.ap_grid.length >= 2
    /\ ret.value[3].position = [row |-> 1, col |-> 0]
    /\ ret.value[3].channel = 11

-----------------------------------------------------------------------------
(* Claims about the channel overlap (SpecOverlap) *)

OverlapDone == args.op = "calculate_channel_overlap" /\ pc = "done"

\* C10: in the 2.4 GHz band the separation is |a - b| x 5 MHz and the overlap is 0 when
\* the separation is at least 25, 100 when it is 0, and (25 - separation) / 25 x 100
\* otherwise; overlap(1, 6) = 0, overlap(1, 1) = 100, overlap(1, 3) = 60, and channels
\* 1, 6, 11 do not overlap pairwise.
C10_Overlap24 ==
    (OverlapDone /\ args.band = "2.4") =>
        LET a == args.ch1
            b == args.ch2
            separation == (IF a >= b THEN a - b ELSE b - a) * 5
            overlap == ret.value
        IN  /\ ret.kind = "return"
            /\ separation >= 25 => overlap = 0
            /\ separation = 0 => overlap = 100
            /\ (separation > 0 /\ separation < 25) => overlap * 25 = (25 - separation) * 100
            /\ (a = 1 /\ b = 6) => overlap = 0
            /\ (a = 1 /\ b = 1) => overlap = 100
            /\ (a = 1 /\ b = 3) => overlap = 60
            /\ (a \in {1, 6, 11} /\ b \in {1, 6, 11} /\ a # b) => overlap = 0

\* overlap(1, 3) computed: a partial overlap of 60 percent
C10_Witness ==
    /\ OverlapDone /\ args.band = "2.4" /\ args.ch1 = 1 /\ args.ch2 = 3
    /\ ret.value = 60

-----------------------------------------------------------------------------
(* Claims about the capacity estimate (SpecCapacity) *)

CapacityDone == args.op = "calculate_capacity_requirements" /\ pc = "done"

\* the unit weights the claims give, in thousandths of a Mbps: 0.5, 2, 5, 0.1, 0.05 and 1
\* for the six known types, 1 for any other label
ClaimedWeight(device_type) ==
    CASE device_type = "handheld_scanner" -> 500
      [] device_type = "tablet" -> 2000
      [] device_type = "laptop" -> 5000
      [] device_type = "voice_device" -> 100
      [] device_type = "iot_sensor" -> 50
      [] device_type = "mobile_robot" -> 1000
      [] OTHER -> 1000

\* the sum over the types in S of unit weight x count
RECURSIVE ClaimedRawSum(_, _)
ClaimedRawSum(mix, S) ==
    IF S = {} THEN 0
    ELSE LET t == CHOOSE x \in S : TRUE
         IN  ClaimedWeight(t) * mix[t] + ClaimedRawSum(mix, S \ {t})

NonNegativeCounts(mix) == \A t \in DOMAIN mix : mix[t] >= 0

\* n = ceil(1.3 x raw / 150), raw in thousandths of a Mbps
IsApsForCapacity(n, raw) == n * 1500000 >= 13 * raw /\ (n - 1) * 1500000 < 13 * raw

\* C8 (as stated): for non-negative counts the returned total required bandwidth equals
\* 1.3 x the sum over types of unit weight x count.
C8_TotalIsExactProduct ==
    (CapacityDone /\ NonNegativeCounts(args.device_types)) =>
        100 * ret.value.total_bandwidth_required_cents
            = 13 * ClaimedRawSum(args.device_types, DOMAIN args.device_types)

\* C8 (amended): for non-negative counts the returned total required bandwidth is
\* 1.3 x the sum over types of unit weight x count rounded to two decimals (within
\* 0.005 Mbps of it), aps_for_capacity = ceil(1.3 x sum / 150), and the breakdown gives
\* count, unit weight and subtotal per type; the example mix has raw sum 387.5, total
\* 503.75 Mbps and 4 APs.
C8_CapacityRoundedTotal ==
    (CapacityDone /\ NonNegativeCounts(args.device_types)) =>
        LET mix == args.device_types
            raw == ClaimedRawSum(mix, DOMAIN mix)
            capacity == ret.value
            cents == capacity.total_bandwidth_required_cents
        IN  /\ ret.kind = "return"
            /\ 100 * cents - 13 * raw \in -50 .. 50
            /\ cents >= 0
            /\ IsApsForCapacity(capacity.aps_for_capacity, raw)
            /\ DOMAIN capacity.device_breakdown = DOMAIN mix
            /\ \A t \in DOMAIN mix :
                   /\ capacity.device_breakdown[t].count = mix[t]
                   /\ capacity.device_breakdown[t].bandwidth_per_device = ClaimedWeight(t)
                   /\ capacity.device_breakdown[t].total_bandwidth = ClaimedWeight(t) * mix[t]
            /\ mix = ExampleMix =>
                   /\ raw = 387500
                   /\ cents = 50375
                   /\ capacity.aps_for_capacity = 4

\* the example mix estimated: 503.75 Mbps, 4 APs
C8_Witness ==
    /\ CapacityDone /\ args.device_types = ExampleMix
    /\ ret.value.total_bandwidth_required_cents = 50375
    /\ ret.value.aps_for_capacity = 4

\* C9: a device-type label outside the six known types is accepted without error,
\* contributes exactly 1 Mbps per unit to the bandwidth sum and is reported with unit
\* bandwidth 1; the known types weigh 0.5, 2, 5, 0.1, 0.05 and 1.
C9_UnknownTypeDefault ==
    CapacityDone =>
        LET mix == args.device_types
            capacity == ret.value
            known == {"handheld_scanner", "tablet", "laptop", "voice_device", "iot_sensor",
                      "mobile_robot"}
        IN  /\ ret.kind = "return"
            /\ \A t \in DOMAIN mix \ known :
                   /\ capacity.device_breakdown[t].bandwidth_per_device = 1000
                   /\ capacity.device_breakdown[t].total_bandwidth = 1000 * mix[t]
            /\ \A t \in DOMAIN mix \cap known :
                   capacity.device_breakdown[t].bandwidth_per_device = ClaimedWeight(t)
            /\ 100 * capacity.total_bandwidth_required_cents
                   - 13 * ClaimedRawSum(mix, DOMAIN mix) \in -50 .. 50
            /\ IsApsForCapacity(capacity.aps_for_capacity, ClaimedRawSum(mix, DOMAIN mix))

\* a mix of an unknown type (3 units) and laptops estimated: the unknown type adds 3 Mbps
C9_Witness ==
    /\ CapacityDone
    /\ DOMAIN args.device_types = {"forklift_terminal", "laptop"}
    /\ args.device_types["forklift_terminal"] = 3
    /\ args.device_types["laptop"] = 30
    /\ ret.value.device_breakdown["forklift_terminal"].bandwidth_per_device = 1000
    /\ ret.value.total_bandwidth_required_cents = 19890
    /\ ret.value.aps_for_capacity = 2

\* C4: when the device mix holds a negative count the capacity estimate fails with an
\* input error before any computation: no capacity result is returned (in particular none
\* with a negative bandwidth or a non-positive AP count) and no report is persisted.
C4_NegativeCountRejected ==
    (CapacityDone /\ ~NonNegativeCounts(args.device_types)) =>
        /\ ret.kind # "return"
        /\ report_file = <<>>

-----------------------------------------------------------------------------
(* Claims about the report (SpecReport) *)

ReportDone == args.op = "generate_optimization_report" /\ pc = "done"

ReportReturned == ReportDone /\ ret.kind = "return"

\* the persisted reports: the file's content when it is a whole report
PersistedReports ==
    {report_file[i] : i \in {j \in 1 .. Len(report_file) : "layout_analysis" \in DOMAIN report_file[j]}}

ExampleDimensions == [width |-> 200, length |-> 300, height |-> 12]

\* C1: the recommended AP count of the executive summary is
\* max(layout total_aps, capacity aps_for_capacity); for the 200 x 300 x 12 m facility
\* with the example device mix it is max(54, 4) = 54.
C1_RecommendedIsMax ==
    ReportReturned =>
        LET report == ret.value
            recommended == report.executive_summary.recommended_aps
            coverage == report.layout_analysis.total_aps
            capacity == report.capacity_analysis.aps_for_capacity
        IN  /\ recommended >= coverage
            /\ recommended >= capacity
            /\ recommended \in {coverage, capacity}
            /\ PersistedReports = {report}
            /\ (args.dimensions = ExampleDimensions /\ args.device_info.device_types = ExampleMix) =>
                   /\ coverage = 54
                   /\ capacity = 4
                   /\ recommended = 54

\* a 1 x 1 grid with 200 laptops: the capacity-driven count, 9, exceeds the coverage-driven 1
C1_Witness ==
    /\ ReportReturned
    /\ ret.value.layout_analysis.total_aps = 1
    /\ ret.value.capacity_analysis.aps_for_capacity = 9
    /\ ret.value.executive_summary.recommended_aps = 9

NonPositiveDimension(d) == d.width <= 0 \/ d.length <= 0 \/ d.height <= 0

\* C3: when width, length or height is zero or negative the analysis fails with an input
\* error before any computation: generate_optimization_report neither returns nor
\* persists a report (so no layout with zero or negative APs comes out).
C3_NonPositiveDimensionRejected ==
    (ReportDone /\ NonPositiveDimension(args.dimensions)) =>
        /\ ret.kind # "return"
        /\ PersistedReports = {}

-----------------------------------------------------------------------------
(* Claims about the transmit power and the height advisory (SpecTxPower, SpecPlan) *)

\* C13: the transmit-power tier of an assignment is a function of the coverage radius only
\* (radius <= 20 Low, <= 30 Medium, else High), every assignment of one plan carries the
\* same tier, and on the layout of the layout analysis (radius 25) it is Medium for
\* every AP.
C13_TxPowerTier ==
    Planned =>
        \A i \in 1 .. Len(ret.value) :
            /\ (layout.coverage_radius <= 20) => ret.value[i].tx_power = "Low (10-13 dBm)"
            /\ (layout.coverage_radius > 20 /\ layout.coverage_radius <= 30) =>
                   ret.value[i].tx_power = "Medium (14-17 dBm)"
            /\ (layout.coverage_radius > 30) => ret.value[i].tx_power = "High (18-20 dBm)"
            /\ \A j \in 1 .. Len(ret.value) : ret.value[j].tx_power = ret.value[i].tx_power
            /\ ("width" \in DOMAIN args) => ret.value[i].tx_power = "Medium (14-17 dBm)"

\* a plan of four APs on a hand-built layout whose radius is the Low tier's upper limit
C13_Witness ==
    /\ Planned
    /\ layout.coverage_radius = 20
    /\ Len(ret.value) = 4
    /\ ret.value[4].tx_power = "Low (10-13 dBm)"

\* C14: the height selects the advisory text only (above 10 m the high-ceiling advisory,
\* otherwise the standard one; 12 m gives the high-ceiling advisory); for a fixed width and
\* length the columns, rows and total AP count are the same at every height.
C14_HeightAdvisoryOnly ==
    Analyzed =>
        /\ (args.height > 10) => layout.vertical_consideration = HighCeiling
        /\ (args.height <= 10) => layout.vertical_consideration = StandardCeiling
        /\ (args.height = 12) => layout.vertical_consideration = HighCeiling
        /\ HighCeiling # StandardCeiling
        /\ \A height \in Heights :
               LET other == analyze_warehouse_layout(args.width, args.length, height)
               IN  /\ other.ap_grid = layout.ap_grid
                   /\ other.total_aps = layout.total_aps

\* the 200 m x 300 m facility analyzed at a height of 12 m: the grid of the 8 m example
C14_Witness ==
    /\ Analyzed
    /\ args.width = 200
    /\ args.length = 300
    /\ args.height = 12
    /\ layout.vertical_consideration = HighCeiling
    /\ layout.ap_grid = [width |-> 6, length |-> 9]
    /\ layout.total_aps = 54

-----------------------------------------------------------------------------
(* Claims about the interference sampler (SpecInterference) *)

InterferenceReturned ==
    pc = "done" /\ args.op = "detect_interference_sources" /\ ret.kind = "return"

\* C15: detect_interference_sources always returns between 2 and 4 entries, each an entry
\* of the fixed five-entry catalog, and no two of them the same entry.
C15_InterferenceSample ==
    InterferenceReturned =>
        /\ Len(ret.value) \in 2 .. 4
        /\ Len(InterferenceCatalog) = 5
        /\ \A i \in 1 .. Len(ret.value) :
               \E c \in 1 .. Len(InterferenceCatalog) : ret.value[i] = InterferenceCatalog[c]
        /\ \A i, j \in 1 .. Len(ret.value) : ret.value[i] = ret.value[j] => i = j

\* a sample of four entries, the last catalog entry drawn first
C15_Witness ==
    /\ InterferenceReturned
    /\ Len(ret.value) = 4
    /\ ret.value[1] = InterferenceCatalog[5]
    /\ ret.value[4] = InterferenceCatalog[1]

-----------------------------------------------------------------------------
(* Claims about repeated calls (SpecRepeated) *)

\* a layout analysis or a capacity estimate has returned
KeptCallReturned ==
    \/ args.op = "generate_channel_plan" /\ pc \in {"analyzed", "done"}
    \/ args.op = "calculate_capacity_requirements" /\ pc = "done"

-----------------------------------------------------------------------------
(* Claims about the plan summary and the recommendations of the report (SpecReport) *)

\* C17: in every report channel_plan_summary.total_aps is the number of assignments of the
\* full channel plan, channels_used holds each channel the plan assigns exactly once and
\* no other channel, and sample_assignments is the first min(5, total) assignments of the
\* plan, in plan order.
C17_PlanSummary ==
    ReportReturned =>
        LET report == ret.value
            channel_plan == generate_channel_plan(report.layout_analysis, TRUE)
            summary == report.channel_plan_summary
            channels_used == summary.channels_used
            sample_assignments == summary.sample_assignments
        IN  /\ summary.total_aps = Len(channel_plan)
            /\ \A k \in 1 .. Len(channel_plan) :
                   Cardinality({i \in 1 .. Len(channels_used) :
                                   channels_used[i] = channel_plan[k].channel}) = 1
            /\ \A i \in 1 .. Len(channels_used) :
                   \E k \in 1 .. Len(channel_plan) : channel_plan[k].channel = channels_used[i]
            /\ Len(sample_assignments) = Min(5, Len(channel_plan))
            /\ \A k \in 1 .. Len(sample_assignments) : sample_assignments[k] = channel_plan[k]

\* the report of the 200 m x 300 m facility: 54 assignments, eight channels, five samples
C17_Witness ==
    /\ ReportReturned
    /\ args.dimensions = ExampleDimensions
    /\ ret.value.channel_plan_summary.total_aps = 54
    /\ Len(ret.value.channel_plan_summary.channels_used) = 8
    /\ Len(ret.value.channel_plan_summary.sample_assignments) = 5
    /\ ret.value.channel_plan_summary.sample_assignments[5].position = [row |-> 0, col |-> 4]

\* the recommendation list of the run of main(): 54 access points
ExampleRecommendations ==
    <<(<<"Deploy ", 54, " access points in a grid pattern">>),
      "Use 5 GHz as primary band with DFS channels enabled",
      "Implement band steering to move capable devices to 5 GHz",
      "Configure 20 MHz channels for maximum capacity",
      "Set TX power to medium (14-17 dBm) for optimal coverage",
      "Enable 802.11k/v/r for seamless roaming",
      "Implement QoS with voice devices on highest priority">>

-----------------------------------------------------------------------------
(* Claims about the visualizer (SpecVisualize) *)

Visualized == pc = "done" /\ args.op = "visualize_channel_plan"

\* the positions of the printed items of the given kind
PrintedAt(line) == {i \in 1 .. Len(ret.printed) : ret.printed[i].line = line}

\* the visualizer printed the message for a missing report, and nothing else, and returned
MissingReportTold ==
    /\ ret.kind = "return"
    /\ ret.printed = <<[line |-> NoReportMessage]>>
    /\ PrintedAt("grid") = {}

\* the visualizer rendered the grid of the report that the optimizer run of call returned
\* and persisted
RunRendered(call) ==
    /\ report_file = <<observed[call].value>>
    /\ \E i \in PrintedAt("header") :
           /\ ret.printed[i].facility = observed[call].value.warehouse
           /\ ret.printed[i].grid_size =
                  <<observed[call].value.layout_analysis.ap_grid.width,
                    observed[call].value.layout_analysis.ap_grid.length>>
    /\ PrintedAt("grid") # {}

\* C19: run while no report file exists, the visualizer prints the message that tells the
\* user to run the optimizer first, renders no grid and returns normally; run after a
\* successful optimizer run, it renders the grid of the report that run persisted.
C19_VisualizerAfterRun ==
    Visualized =>
        /\ (report_file = <<>>) => MissingReportTold
        /\ \A call \in DOMAIN observed :
               (observed[call].kind = "return") => RunRendered(call)

\* the same, of the optimizer runs on a facility of positive width and length only
VisualizerAfterRunOnPositiveDimensions ==
    Visualized =>
        /\ (report_file = <<>>) => MissingReportTold
        /\ \A call \in DOMAIN observed :
               (/\ observed[call].kind = "return"
                /\ call.dimensions.width > 0
                /\ call.dimensions.length > 0) => RunRendered(call)

\* the printed grid is the one described for the report: min(L, 10) rows of min(W, 15)
\* cells, the cell of row and col (from 0) showing
\* channels_used[(row * W + col) mod len(channels_used)]
GridRenderedOf(report) ==
    LET W == report.layout_analysis.ap_grid.width
        L == report.layout_analysis.ap_grid.length
        channels_used == report.channel_plan_summary.channels_used
    IN  \E i \in PrintedAt("grid") :
            LET rows == ret.printed[i].rows
            IN  /\ Len(rows) = Max(0, Min(L, 10))
                /\ \A row \in 1 .. Len(rows) :
                       /\ Len(rows[row].cells) = Max(0, Min(W, 15))
                       /\ \A col \in 1 .. Len(rows[row].cells) :
                              rows[row].cells[col].digits =
                                  Digits(channels_used[
                                      (((row - 1) * W + (col - 1)) % Len(channels_used)) + 1])

\* C20: for a report whose grid is W wide and L long the visualizer renders exactly
\* min(L, 10) rows of min(W, 15) cells each, and the cell of row and col (from 0) shows
\* channels_used[(row * W + col) mod len(channels_used)].
C20_RenderedGrid ==
    Visualized => \A report \in PersistedReports : GridRenderedOf(report)

\* the same, of the reports whose grid has at least one column and one row only
RenderedGridOfNonEmptyGrid ==
    Visualized =>
        \A report \in PersistedReports :
            (/\ report.layout_analysis.ap_grid.width >= 1
             /\ report.layout_analysis.ap_grid.length >= 1) => GridRenderedOf(report)

\* C21: for every report the optimizer persists for valid input (positive dimensions),
\* the visualizer runs to completion without raising, its channel-usage summary and its
\* coverage statistics included.
C21_VisualizerCompletes ==
    Visualized =>
        \A call \in DOMAIN observed :
            (/\ observed[call].kind = "return"
             /\ call.dimensions.width > 0
             /\ call.dimensions.length > 0
             /\ call.dimensions.height > 0) =>
                /\ ret.kind = "return"
                /\ PrintedAt("usage") # {}
                /\ PrintedAt("separation") # {}
                /\ PrintedAt("coverage") # {}

-----------------------------------------------------------------------------
(* Claims about the persistence of the report (SpecVisualize) *)

-----------------------------------------------------------------------------
(* Claims about the state shared by planning runs (SpecRuns) *)

\* C23: planning runs share no mutable state: after any sequence of calls of the
\* optimizer's operations the two channel catalogs and the channel-width table are as
\* __init__ built them, and the layout, capacity and channel-plan parts of a run's report
\* are those of the first run with the same inputs, whatever was run in between.
C23_NoSharedState ==
    /\ channels_24ghz = Channels24Init
    /\ channels_5ghz = Channels5Init
    /\ channel_widths = ChannelWidthsInit
    /\ (ReportReturned /\ args \in DOMAIN observed) => RunParts(ret.value) = observed[args]

\* a run repeated while the report of the earlier run on another facility was in the
\* file the first time and its own report the second time
C23_Witness ==
    /\ ReportReturned
    /\ args \in DOMAIN observed
    /\ ret.value.channel_plan_summary.total_aps = 2
    /\ EarlierReports # {}
    /\ \A report \in EarlierReports : report.channel_plan_summary.total_aps = 6

-----------------------------------------------------------------------------
(* the bands and the neighbours of a plan *)

\* the cells of the returned plan, and the pairs of cells that are neighbours in a column
\* or in a row
PlanCells == 1 .. Len(ret.value)

VerticallyAdjacent(j, k) ==
    /\ ret.value[j].position.col = ret.value[k].position.col
    /\ ret.value[k].position.row = ret.value[j].position.row + 1

HorizontallyAdjacent(j, k) ==
    /\ ret.value[j].position.row = ret.value[k].position.row
    /\ ret.value[k].position.col = ret.value[j].position.col + 1

\* C24: the band selector determines the catalog: every assignment of a 5 GHz plan has
\* band "5GHz" and a channel of 36, 40, 44, 48, 149, 153, 157, 161, every assignment of a
\* 2.4 GHz plan has band "2.4GHz" and a channel of 1, 6, 11; no plan mixes bands.
C24_BandSelectsCatalog ==
    Planned =>
        \A k \in PlanCells :
            /\ args.use_5ghz =>
                   /\ ret.value[k].band = "5GHz"
                   /\ ret.value[k].channel \in {36, 40, 44, 48, 149, 153, 157, 161}
            /\ ~args.use_5ghz =>
                   /\ ret.value[k].band = "2.4GHz"
                   /\ ret.value[k].channel \in {1, 6, 11}

\* a 2.4 GHz plan that uses all of 1, 6 and 11
C24_Witness ==
    /\ Planned /\ ~args.use_5ghz
    /\ {ret.value[k].channel : k \in PlanCells} = {1, 6, 11}
    /\ \A k \in PlanCells : ret.value[k].band = "2.4GHz"

\* C25: when the grid has at least as many columns as the band has channels, a cell's
\* channel is channels[col mod channelCount], so every row carries the same sequence and
\* every vertically adjacent pair is co-channel; when it has fewer columns, no two
\* vertically adjacent cells share a channel.
C25_VerticalNeighbours ==
    Planned =>
        LET plan == ret.value
            channels == BandChannels(args.use_5ghz)
            columns == layout.ap_grid.width
        IN  /\ columns >= Len(channels) =>
                   /\ \A k \in PlanCells :
                          plan[k].channel = channels[(plan[k].position.col % Len(channels)) + 1]
                   /\ \A j, k \in PlanCells :
                          plan[j].position.col = plan[k].position.col =>
                              plan[j].channel = plan[k].channel
                   /\ \A j, k \in PlanCells :
                          VerticallyAdjacent(j, k) => plan[j].channel = plan[k].channel
            /\ columns < Len(channels) =>
                   \A j, k \in PlanCells :
                       VerticallyAdjacent(j, k) => plan[j].channel # plan[k].channel

\* a 5 GHz grid of exactly eight columns and two rows or more whose second row starts
\* again with 36
C25_Witness ==
    /\ Planned /\ args.use_5ghz
    /\ layout.ap_grid.width = 8 /\ layout.ap_grid.length >= 2
    /\ \E j, k \in PlanCells :
           /\ VerticallyAdjacent(j, k)
           /\ ret.value[j].position.col = 0
           /\ ret.value[j].channel = 36 /\ ret.value[k].channel = 36

\* a 5 GHz grid of fewer than eight columns with two rows, whose vertical neighbours differ
C25_WitnessNarrow ==
    /\ Planned /\ args.use_5ghz
    /\ layout.ap_grid.width < 8 /\ layout.ap_grid.width >= 2
    /\ \E j, k \in PlanCells :
           VerticallyAdjacent(j, k) /\ ret.value[j].channel # ret.value[k].channel

\* C26: in every plan, of either band and any grid shape, the cells (c, c+1) of one row
\* never share a channel.
C26_HorizontalNeighbours ==
    Planned =>
        \A j, k \in PlanCells :
            HorizontallyAdjacent(j, k) => ret.value[j].channel # ret.value[k].channel

\* a 2.4 GHz grid wider than three columns: columns 2 and 3 of a row get 11 and then 1
C26_Witness ==
    /\ Planned /\ ~args.use_5ghz
    /\ layout.ap_grid.width > 3
    /\ \E j, k \in PlanCells :
           /\ HorizontallyAdjacent(j, k)
           /\ ret.value[j].position.col = 2
           /\ ret.value[j].channel = 11 /\ ret.value[k].channel = 1

\* C27: a plan with at least one cell uses min(number of channels of the band, number of
\* APs) distinct channels.
C27_DistinctChannels ==
    (Planned /\ Len(ret.value) >= 1) =>
        LET used == {ret.value[k].channel : k \in PlanCells}
            channelCount == Len(BandChannels(args.use_5ghz))
        IN  Cardinality(used) = IF channelCount <= Len(ret.value) THEN channelCount
                                                                  ELSE Len(ret.value)

\* a 5 GHz plan of two columns and three rows: six APs on six channels
C27_Witness ==
    /\ Planned /\ args.use_5ghz
    /\ layout.ap_grid.width = 2 /\ layout.ap_grid.length = 3
    /\ Cardinality({ret.value[k].channel : k \in PlanCells}) = 6

\* a 5 GHz plan of more than eight APs, on all eight channels
C27_WitnessMany ==
    /\ Planned /\ args.use_5ghz
    /\ Len(ret.value) > 8
    /\ Cardinality({ret.value[k].channel : k \in PlanCells}) = 8

-----------------------------------------------------------------------------
(* the three AP counts of a report (SpecReport) *)

\* C28: in every report channel_plan_summary.total_aps equals layout_analysis.total_aps
\* and never exceeds executive_summary.recommended_aps; the two are equal exactly when
\* the capacity count is not greater than the coverage count.
C28_ReportTotals ==
    ReportReturned =>
        LET report == ret.value
            planned == report.channel_plan_summary.total_aps
            coverage == report.layout_analysis.total_aps
            capacity == report.capacity_analysis.aps_for_capacity
            recommended == report.executive_summary.recommended_aps
        IN  /\ planned = coverage
            /\ planned <= recommended
            /\ (planned = recommended) <=> (capacity <= coverage)

\* the same relations hold in every report of a facility of positive dimensions
ReportTotalsOnPositiveDimensions ==
    (ReportReturned /\ ~NonPositiveDimension(args.dimensions)) =>
        LET report == ret.value
            planned == report.channel_plan_summary.total_aps
            coverage == report.layout_analysis.total_aps
            capacity == report.capacity_analysis.aps_for_capacity
            recommended == report.executive_summary.recommended_aps
        IN  /\ planned = coverage
            /\ planned <= recommended
            /\ (planned = recommended) <=> (capacity <= coverage)

\* a report of a facility of positive dimensions whose capacity count exceeds its coverage
\* count: more APs are recommended than the plan holds
ReportTotalsCapacityDriven ==
    /\ ReportReturned /\ ~NonPositiveDimension(args.dimensions)
    /\ ret.value.capacity_analysis.aps_for_capacity > ret.value.layout_analysis.total_aps
    /\ ret.value.channel_plan_summary.total_aps < ret.value.executive_summary.recommended_aps

-----------------------------------------------------------------------------
(* Wireless_Troubleshooting_Toolkit/troubleshooting_toolkit.py: WirelessTroubleshooter.
   A member of an Enum is written by its name; an f-string is the tuple of its parts,
   and a string that stands where an f-string may stand is the tuple of one part.
   A timestamp keeps what the code reads of datetime.now(): its place in the order of the
   instants (the calls are numbered as they are made) and its hour. *)

\* class IssueType: the members and their values
IssueType ==
    [CONNECTIVITY |-> "Connectivity Issue",
     PERFORMANCE |-> "Performance Degradation",
     ROAMING |-> "Roaming Problems",
     INTERFERENCE |-> "RF Interference",
     CAPACITY |-> "Capacity Exceeded",
     AUTHENTICATION |-> "Authentication Failures",
     COVERAGE |-> "Coverage Gap"]

\* deque(maxlen=1000)
HistoryMaxLen == 1000

\* len(self.issue_history) < 10
MinIssuesForPatterns == 10

\* a dict of causes, in insertion order
Cause(cause, details) == [cause |-> cause, details |-> details]

\* _build_resolution_database
resolution_database ==
    [CONNECTIVITY |->
         [symptoms |-> <<"Client cannot connect to SSID", "Frequent disconnections",
                         "Cannot obtain IP address", "Connection timeouts">>,
          diagnostics |-> <<"Check signal strength", "Verify SSID broadcast",
                            "Check authentication settings", "Verify DHCP pool availability",
                            "Check VLAN configuration">>,
          common_causes |->
              <<Cause("Signal too weak",
                      [threshold |-> -75, resolution |-> "Increase AP density or TX power"]),
                Cause("Authentication mismatch",
                      [check |-> "802.1X vs PSK configuration",
                       resolution |-> "Verify client supplicant settings"]),
                Cause("DHCP exhaustion",
                      [check |-> "DHCP pool utilization > 90%",
                       resolution |-> "Expand DHCP scope or reduce lease time"]),
                Cause("Wrong VLAN",
                      [check |-> "VLAN ID mismatch",
                       resolution |-> "Correct VLAN assignment on SSID"])>>],
     PERFORMANCE |->
         [symptoms |-> <<"Slow data transfer", "High latency", "Intermittent connectivity",
                         "Poor application performance">>,
          diagnostics |-> <<"Measure throughput", "Check channel utilization",
                            "Analyze retry rates", "Check for hidden nodes", "Measure SNR">>,
          common_causes |->
              <<Cause("High channel utilization",
                      [threshold |-> 80, resolution |-> "Change channel or add more APs"]),
                Cause("Co-channel interference",
                      [check |-> "Multiple APs on same channel",
                       resolution |-> "Implement proper channel plan"]),
                Cause("Low SNR",
                      [threshold |-> 20, resolution |-> "Reduce interference or improve signal"]),
                Cause("Client density",
                      [threshold |-> 50, resolution |-> "Add capacity with more APs"])>>],
     ROAMING |->
         [symptoms |-> <<"Devices stick to distant APs", "Connection drops during movement",
                         "Voice call quality issues", "Slow roaming transitions">>,
          diagnostics |-> <<"Check 802.11k/v/r support", "Analyze roaming thresholds",
                            "Verify AP overlap", "Check roaming logs">>,
          common_causes |->
              <<Cause("Insufficient AP overlap",
                      [threshold |-> -67, resolution |-> "Adjust AP placement for 20% overlap"]),
                Cause("Sticky client behavior",
                      [check |-> "Client roaming aggressiveness",
                       resolution |-> "Enable 802.11v BSS transition"]),
                Cause("Missing fast roaming",
                      [check |-> "802.11r not enabled",
                       resolution |-> "Enable fast BSS transition"])>>],
     INTERFERENCE |->
         [symptoms |-> <<"Intermittent performance issues", "High retry rates", "CRC errors",
                         "Unpredictable behavior">>,
          diagnostics |-> <<"Spectrum analysis", "Check non-WiFi interference",
                            "Analyze channel overlap", "Review error counters">>,
          common_causes |->
              <<Cause("Non-WiFi interference",
                      [sources |-> <<"Bluetooth", "Microwaves", "Radar">>,
                       resolution |-> "Change channels or shield source"]),
                Cause("Adjacent channel interference",
                      [check |-> "Overlapping channels in use",
                       resolution |-> "Use only non-overlapping channels"]),
                Cause("Rogue APs",
                      [check |-> "Unknown SSIDs detected",
                       resolution |-> "Locate and remove rogue devices"])>>]]

\* dict.get(key, default)
Get(dict, key, default) == IF key \in DOMAIN dict THEN dict[key] ELSE default

\* the random module during one call, by what it gives: randint and uniform their least
\* or their greatest value, random() a value just above 0 or just below 1
RandomDraws == [measured : {"least", "greatest"}, chance : {"least", "greatest"}]

\* random.randint(a, b), and random.uniform(a / 100, b / 100) in hundredths
RandInt(draw, a, b) == IF draw.measured = "least" THEN a ELSE b

\* random.random() > p, for p strictly between 0 and 1
RandomAbove(draw) == draw.chance = "greatest"

_calculate_severity(issue_type, symptoms) ==
    IF issue_type = "CONNECTIVITY" /\ Len(symptoms) > 2 THEN "CRITICAL"
    ELSE IF issue_type \in {"PERFORMANCE", "ROAMING"} THEN "HIGH"
    ELSE IF issue_type \in {"INTERFERENCE", "CAPACITY"} THEN "MEDIUM"
    ELSE "LOW"

_perform_diagnostic(diagnostic, environment_data, draw) ==
    CASE diagnostic = "Check signal strength" ->
             <<Get(environment_data, "signal_strength", -65), " dBm">>
      [] diagnostic = "Verify SSID broadcast" ->
             <<IF RandomAbove(draw) THEN "SSID visible" ELSE "SSID hidden">>
      [] diagnostic = "Check authentication settings" ->
             <<"WPA2-Enterprise configured correctly">>
      [] diagnostic = "Verify DHCP pool availability" ->
             <<RandInt(draw, 60, 95), "% utilized">>
      [] diagnostic = "Check VLAN configuration" ->
             <<"VLAN ", Get(environment_data, "vlan", 100), " configured">>
      [] diagnostic = "Measure throughput" -> <<RandInt(draw, 50, 150), " Mbps">>
      [] diagnostic = "Check channel utilization" -> <<RandInt(draw, 40, 90), "%">>
      [] diagnostic = "Analyze retry rates" -> <<RandInt(draw, 5, 30), "%">>
      [] diagnostic = "Measure SNR" -> <<RandInt(draw, 15, 35), " dB">>
      [] diagnostic = "Check 802.11k/v/r support" ->
             <<IF RandomAbove(draw) THEN "Enabled" ELSE "Disabled">>
      [] diagnostic = "Spectrum analysis" ->
             <<IF RandomAbove(draw) THEN "Interference detected on channel 6" ELSE "Clear">>
      [] OTHER -> <<"Test completed">>

\* word in cause.lower(), for the causes of the database
Mentions(cause, word) ==
    \/ word = "signal" /\ cause = "Signal too weak"
    \/ word = "utilization" /\ cause = "High channel utilization"
    \/ word = "snr" /\ cause = "Low SNR"

_check_condition(cause, details, environment_data, draw) ==
    IF "threshold" \in DOMAIN details /\ Mentions(cause, "signal")
    THEN Get(environment_data, "signal_strength", -65) < details.threshold
    ELSE IF "threshold" \in DOMAIN details /\ Mentions(cause, "utilization")
    THEN RandInt(draw, 70, 95) > details.threshold
    ELSE IF "threshold" \in DOMAIN details /\ Mentions(cause, "snr")
    THEN RandInt(draw, 15, 25) < details.threshold
    ELSE RandomAbove(draw)

\* the causes of issue_info["common_causes"] whose condition is met, in the dict's order
MetCauses(issue_info, environment_data, draw) ==
    SelectSeq(issue_info.common_causes,
              LAMBDA c : _check_condition(c.cause, c.details, environment_data, draw))

\* diagnose_issue up to the diagnosis it builds: now is the instant of the call, draw what
\* the random module gives during it
diagnose_issue(issue_type, symptoms, environment_data, now, draw) ==
    LET known == issue_type \in DOMAIN resolution_database
        issue_info == resolution_database[issue_type]
        met == IF known THEN MetCauses(issue_info, environment_data, draw) ELSE <<>>
    IN  [timestamp |-> now,
         issue_type |-> IssueType[issue_type],
         symptoms |-> symptoms,
         severity |-> _calculate_severity(issue_type, symptoms),
         environment |-> environment_data,
         diagnostics_performed |->
             IF known
             THEN [i \in 1 .. Len(issue_info.diagnostics) |->
                       [test |-> issue_info.diagnostics[i],
                        result |-> _perform_diagnostic(issue_info.diagnostics[i],
                                                       environment_data, draw)]]
             ELSE <<>>,
         findings |-> [i \in 1 .. Len(met) |->
                           [cause |-> met[i].cause,
                            details |-> met[i].details,
                            confidence |-> RandInt(draw, 70, 95)]],
         recommendations |-> [i \in 1 .. Len(met) |-> Get(met[i].details, "resolution", "")]]

\* a variant of the deque that never drops a diagnosis
DequeAppend_unbounded(history, item) == Append(history, item)

\* deque.append on a deque(maxlen=1000): a full deque drops its oldest item
DequeAppend(history, item) ==
    IF Len(history) >= HistoryMaxLen
    THEN Append(SubSeq(history, Len(history) - HistoryMaxLen + 2, Len(history)), item)
    ELSE Append(history, item)

\* the whole method: the diagnosis goes to the history and to diagnostic_results, and is
\* returned
DiagnoseIssue ==
    /\ pc = "call"
    /\ args.op = "diagnose_issue"
    /\ \E draw \in RandomDraws :
           LET diagnosis == diagnose_issue(args.issue_type, args.symptoms, args.environment_data,
                                           [instant |-> calls.made, hour |-> args.hour], draw)
           IN  /\ issue_history' = DequeAppend(issue_history, diagnosis)
               /\ diagnostic_results' = <<diagnosis>>
               /\ ret' = [kind |-> "return", value |-> diagnosis]
    /\ pc' = "done"
    /\ UNCHANGED <<args, layout, report_file, catalog, rounded_as, observed,
                   troubleshooting_report_file, calls>>

-----------------------------------------------------------------------------
(* analyze_patterns and generate_report.  A dict filled in a loop is the sequence of its
   items [key, value], in the order the keys were first inserted. *)

\* the numbers of a finite set, ascending
RECURSIVE Ascending(_)
Ascending(numbers) ==
    IF numbers = {} THEN <<>>
    ELSE LET least == CHOOSE n \in numbers : \A other \in numbers : n <= other
         IN  <<least>> \o Ascending(numbers \ {least})

\* the place in the history of the first issue with the key k
FirstAt(history, Key(_), k) ==
    CHOOSE i \in 1 .. Len(history) :
        Key(history[i]) = k /\ \A j \in 1 .. i - 1 : Key(history[j]) # k

\* the keys of a dict that the loop over the history fills, in insertion order
KeysInOrder(history, Key(_)) ==
    LET keys == {Key(history[i]) : i \in 1 .. Len(history)}
        order == Ascending({FirstAt(history, Key, k) : k \in keys})
    IN  [n \in 1 .. Len(order) |-> Key(history[order[n]])]

\* how many issues of the history have the key k
CountOf(history, Key(_), k) == Cardinality({i \in 1 .. Len(history) : Key(history[i]) = k})

\* a defaultdict(int) counting the issues by key
CountedBy(history, Key(_)) ==
    LET keys == KeysInOrder(history, Key)
    IN  [n \in 1 .. Len(keys) |-> [key |-> keys[n], value |-> CountOf(history, Key, keys[n])]]

\* datetime.fromisoformat(issue["timestamp"]).hour
HourOf(issue) == issue.timestamp.hour

\* issue["environment"].get("location", "Unknown")
LocationOf(issue) == Get(issue.environment, "location", "Unknown")

\* f"{issue['issue_type']}_{issue['symptoms'][0] if issue['symptoms'] else ''}"
RecurringKey(issue) ==
    <<issue.issue_type, "_", IF issue.symptoms # <<>> THEN issue.symptoms[1] ELSE "">>

InsufficientData == [message |-> "Insufficient data for pattern analysis"]

analyze_patterns(history) ==
    IF Len(history) < MinIssuesForPatterns THEN InsufficientData
    ELSE LET types == KeysInOrder(history, LAMBDA issue : issue.issue_type)
             issue_counts == CountedBy(history, RecurringKey)
             recurring == SelectSeq(issue_counts, LAMBDA item : item.value > 2)
         IN  [issue_frequency |-> CountedBy(history, LAMBDA issue : issue.issue_type),
              time_patterns |->
                  [n \in 1 .. Len(types) |->
                       LET of_type == SelectSeq(history, LAMBDA issue : issue.issue_type = types[n])
                       IN  [key |-> types[n],
                            value |-> [i \in 1 .. Len(of_type) |-> HourOf(of_type[i])]]],
              location_patterns |-> CountedBy(history, LocationOf),
              recurring_issues |->
                  [n \in 1 .. Len(recurring) |->
                       [issue |-> recurring[n].key, occurrences |-> recurring[n].value]]]

\* hours.count(hour)
HourCount(hours, hour) == Cardinality({i \in 1 .. Len(hours) : hours[i] = hour})

\* max(set(hours), key=hours.count): the first hour, as the set is iterated, that no other
\* hour beats (the hours of the model are not 0, which the table of ListOfSet keeps for an
\* empty slot)
PeakHour(hours) ==
    LET listed == ListOfSet(hours)
        first == CHOOSE i \in 1 .. Len(listed) :
                     /\ \A j \in 1 .. Len(listed) :
                            HourCount(hours, listed[j]) <= HourCount(hours, listed[i])
                     /\ \A j \in 1 .. i - 1 :
                            HourCount(hours, listed[j]) < HourCount(hours, listed[i])
    IN  listed[first]

_generate_recommendations(patterns) ==
    LET frequent == SelectSeq(patterns.issue_frequency, LAMBDA item : item.value > 5)
        peaking == SelectSeq(patterns.time_patterns,
                             LAMBDA item : /\ item.value # <<>>
                                           /\ HourCount(item.value, PeakHour(item.value)) > 3)
    IN  [n \in 1 .. Len(frequent) |->
             [priority |-> "High",
              issue |-> <<frequent[n].key>>,
              recommendation |-> <<"Frequent ", frequent[n].key,
                                   " detected. Consider systematic review of infrastructure.">>]]
        \o
        [n \in 1 .. Len(peaking) |->
             [priority |-> "Medium",
              issue |-> <<peaking[n].key, " peaks at ", PeakHour(peaking[n].value), ":00">>,
              recommendation |-> <<"Consider capacity planning for peak hours">>]]

\* max(patterns["issue_frequency"].items(), key=lambda x: x[1])[0] if
\* patterns["issue_frequency"] else "N/A": the first type that no other type beats
MostCommonIssue(issue_frequency) ==
    IF issue_frequency = <<>> THEN "N/A"
    ELSE LET first == CHOOSE i \in 1 .. Len(issue_frequency) :
                          /\ \A j \in 1 .. Len(issue_frequency) :
                                 issue_frequency[j].value <= issue_frequency[i].value
                          /\ \A j \in 1 .. i - 1 :
                                 issue_frequency[j].value < issue_frequency[i].value
         IN  issue_frequency[first].key

\* len(self.issue_history)
TotalIssuesAnalyzed(history) == Len(history)

\* generate_report up to the report it builds, or the exception that ends it:
\* patterns["issue_frequency"] of the message that analyze_patterns returns for a short
\* history is a KeyError
generate_report(history, latest, now) ==
    LET patterns == analyze_patterns(history)
    IN  IF "issue_frequency" \notin DOMAIN patterns
        THEN [kind |-> "raise", error |-> "KeyError"]
        ELSE [kind |-> "return",
              value |->
                  [report_title |-> "Wireless Network Troubleshooting Analysis",
                   generated |-> now,
                   summary |->
                       [total_issues_analyzed |-> TotalIssuesAnalyzed(history),
                        most_common_issue |-> MostCommonIssue(patterns.issue_frequency),
                        critical_issues |->
                            Cardinality({i \in 1 .. Len(history) :
                                             history[i].severity = "CRITICAL"})],
                   latest_diagnosis |-> latest,
                   patterns |-> patterns,
                   recommendations |-> _generate_recommendations(patterns)]]

\* the whole method; when the report is built, the write at the end succeeds, or open()
\* fails (the file is left as it was), or json.dump fails after open() truncated the file
GenerateReport ==
    /\ pc = "call"
    /\ args.op = "generate_report"
    /\ LET built == generate_report(issue_history, diagnostic_results,
                                    [instant |-> calls.made, hour |-> args.hour])
       IN  IF built.kind = "raise"
           THEN /\ ret' = built
                /\ UNCHANGED troubleshooting_report_file
           ELSE \/ /\ troubleshooting_report_file' = <<JsonDump(built.value)>>
                   /\ ret' = built
                \/ /\ ret' = [kind |-> "raise", error |-> "OSError"]
                   /\ UNCHANGED troubleshooting_report_file
                \/ /\ ret' = [kind |-> "raise", error |-> "OSError"]
                   /\ troubleshooting_report_file' = <<[truncated |-> TRUE]>>
    /\ pc' = "done"
    /\ UNCHANGED <<args, layout, report_file, catalog, rounded_as, observed,
                   issue_history, diagnostic_results, calls>>

-----------------------------------------------------------------------------
(* The caller of the troubleshooter (SpecTroubleshooter): it fills the history with one
   call repeated, a call that draws nothing from the random module, and at some lengths of
   the history it goes on with a few calls of its choice, reports included. *)

\* the filling goes on to at most MaxFilling calls
MaxFilling == 1001

\* the calls of the caller's choice after the filling
MaxFree == 2

\* the numbers of filling calls after which the caller may go on with calls of its choice
LeavePoints ==
    {0, 1, MinIssuesForPatterns - 1, MinIssuesForPatterns, HistoryMaxLen - 1, HistoryMaxLen,
     MaxFilling}

\* an issue type that is not in the resolution database: nothing is drawn
FillingCall ==
    [op |-> "diagnose_issue",
     issue_type |-> "CAPACITY",
     symptoms |-> <<"Access points at client limit">>,
     environment_data |-> [location |-> "Dock_East"],
     hour |-> 14]

\* the issue of simulate_warehouse_issue, a connectivity issue with three symptoms where
\* the signal is weak, and a coverage gap reported with no symptom and no environment
FreeCalls ==
    {[op |-> "diagnose_issue",
      issue_type |-> "PERFORMANCE",
      symptoms |-> <<"Slow data transfer", "Scanner app freezing", "Intermittent connectivity">>,
      environment_data |-> [location |-> "Shipping_Area_West", signal_strength |-> -72,
                            connected_clients |-> 85, channel |-> 6, vlan |-> 200,
                            ap_model |-> "Cisco 9130", time |-> "14:00"],
      hour |-> 14],
     [op |-> "diagnose_issue",
      issue_type |-> "CONNECTIVITY",
      symptoms |-> <<"Client cannot connect to SSID", "Frequent disconnections",
                     "Connection timeouts">>,
      environment_data |-> [signal_strength |-> -80],
      hour |-> 9],
     [op |-> "diagnose_issue",
      issue_type |-> "COVERAGE",
      symptoms |-> <<>>,
      environment_data |-> [location \in {} |-> ""],
      hour |-> 9],
     [op |-> "generate_report", hour |-> 14]}

\* the caller makes its next call
CallTroubleshooter ==
    /\ pc = "done"
    /\ \/ /\ calls.free = 0 /\ calls.made < MaxFilling
          /\ args' = FillingCall
          /\ calls' = [calls EXCEPT !.made = @ + 1]
       \/ /\ calls.free < MaxFree
          /\ calls.free > 0 \/ calls.made \in LeavePoints
          /\ \E call \in FreeCalls :
                 /\ args' = call
                 /\ calls' = [made |-> IF call.op = "diagnose_issue" THEN calls.made + 1
                                                                    ELSE calls.made,
                              free |-> calls.free + 1]
    /\ pc' = "call"
    /\ ret' = [kind |-> "none"]
    /\ UNCHANGED <<layout, report_file, catalog, rounded_as, observed,
                   issue_history, diagnostic_results, troubleshooting_report_file>>

InitToolkit == InitOptimizer /\ pc = "done" /\ args = [op |-> "none"]

NextToolkit == CallTroubleshooter \/ DiagnoseIssue \/ GenerateReport

SpecToolkit == InitToolkit /\ [][NextToolkit]_vars

-----------------------------------------------------------------------------
(* Claims about the troubleshooter (SpecToolkit) *)

\* the diagnose_issue calls that returned
Diagnosed == IF pc = "call" /\ args.op = "diagnose_issue" THEN calls.made - 1 ELSE calls.made

\* C29: after any sequence of diagnose_issue calls, issue_history holds the
\* min(calls, 1000) most recent diagnoses in call order (at the bound the oldest is
\* dropped), each call appends exactly one diagnosis, whether its issue type is in the
\* resolution database or not, and diagnostic_results is the diagnosis of the latest call.
C29_BoundedHistory ==
    LET held == Len(issue_history)
    IN  /\ held = (IF Diagnosed <= 1000 THEN Diagnosed ELSE 1000)
        /\ \A i \in 1 .. held : issue_history[i].timestamp.instant = Diagnosed - held + i
        /\ diagnostic_results = IF Diagnosed = 0 THEN <<>> ELSE <<issue_history[held]>>
        /\ (pc = "done" /\ args.op = "diagnose_issue") =>
               /\ ret = [kind |-> "return", value |-> issue_history[held]]
               /\ ret.value.issue_type = IssueType[args.issue_type]
               /\ ret.value.symptoms = args.symptoms

\* the 1002nd call, for an issue type that is not in the database: the history holds the
\* calls 3 to 1002
C29_Witness ==
    /\ pc = "done" /\ args.op = "diagnose_issue" /\ args.issue_type = "COVERAGE"
    /\ calls.made = 1002
    /\ Len(issue_history) = 1000
    /\ issue_history[1].timestamp.instant = 3
    /\ issue_history[1000].issue_type = "Coverage Gap"
    /\ issue_history[999].diagnostics_performed # <<>>

ToolkitReportDone == pc = "done" /\ args.op = "generate_report"

WriteFailed == ret.kind = "raise" /\ ret.error = "OSError"

\* C30: after any sequence of diagnose_issue calls, none or fewer than 10 included,
\* generate_report completes without raising: it returns and persists a report whose
\* total_issues_analyzed is the length of the history, with the 'insufficient data'
\* result as its patterns when the history holds fewer than 10 issues.
C30_ReportCompletes ==
    (ToolkitReportDone /\ ~WriteFailed) =>
        /\ ret.kind = "return"
        /\ troubleshooting_report_file = <<ret.value>>
        /\ ret.value.summary.total_issues_analyzed = Len(issue_history)
        /\ Len(issue_history) < 10 => ret.value.patterns = InsufficientData

\* on a history of 10 issues or more the report is returned and persisted, with the
\* length of the history as its total
ReportOnLongHistory ==
    (ToolkitReportDone /\ ~WriteFailed /\ Len(issue_history) >= 10) =>
        /\ ret.kind = "return"
        /\ troubleshooting_report_file = <<ret.value>>
        /\ ret.value.summary.total_issues_analyzed = Len(issue_history)

\* on a shorter history the report raises KeyError and nothing is written
ReportOnShortHistory ==
    (ToolkitReportDone /\ Len(issue_history) < 10) =>
        /\ ret = [kind |-> "raise", error |-> "KeyError"]
        /\ troubleshooting_report_file = <<>>

\* a report of a full history after 1001 calls: 1000 issues analyzed
ReportOnFullHistory ==
    /\ ToolkitReportDone /\ ret.kind = "return"
    /\ calls.made = 1001
    /\ ret.value.summary.total_issues_analyzed = 1000

====
